---- MODULE Spec2Model ----
(***************************************************************************)
(* A model of the reactive core of LiteZ / LiteUI (src/LiteZ.js,           *)
(* src/liteUi.js): reactive cells (createState), derived cells             *)
(* (createComputed), the localStorage persistence helpers and the render   *)
(* binding (render / updateUI).                                            *)
(*                                                                         *)
(* JavaScript values are tagged records.  A plain object keeps its own     *)
(* properties as a sequence of [k, v] pairs, because the order of the      *)
(* properties is observable (JSON.stringify).  A JSON text is a tagged     *)
(* record of its own (field j), so that JSON.stringify and JSON.parse are  *)
(* conversions and not the identity.                                       *)
(***************************************************************************)
EXTENDS Integers, Sequences, FiniteSets, TLC

(***************************************************************************)
(* JavaScript values                                                       *)
(***************************************************************************)
\* the objects user code holds and may change in place: an object of the
\* heap is named by a reference, and user code passes references to the API
VARIABLE heap

Undef == [t |-> "undefined"]
Null == [t |-> "null"]
Num(n) == [t |-> "number", n |-> n]
Bool(b) == [t |-> "boolean", b |-> b]
Str(s) == [t |-> "string", s |-> s]
Obj(kv) == [t |-> "object", kv |-> kv]
Arr(el) == [t |-> "array", el |-> el]
P(k, v) == [k |-> k, v |-> v]

\* a reference to object id of the heap
Ref(id) == [t |-> "ref", id |-> id]

\* the typeof operator
TypeOf(v) ==
  IF v.t \in {"null", "object", "array", "ref"} THEN "object" ELSE v.t

\* ToBoolean, as applied by the conditional operator ?: and by &&
Truthy(v) ==
  CASE v.t = "undefined" -> FALSE
    [] v.t = "null" -> FALSE
    [] v.t = "number" -> v.n # 0
    [] v.t = "boolean" -> v.b
    [] v.t = "string" -> v.s # ""
    [] OTHER -> TRUE

\* the canonical array-index property names, in ascending order
IndexKeys == <<"0", "1", "2", "3">>
IndexKey(i) == IndexKeys[i + 1]
IsIndexKey(k) == \E i \in 1..Len(IndexKeys) : IndexKeys[i] = k
IndexOf(k) == CHOOSE i \in 1..Len(IndexKeys) : IndexKeys[i] = k

\* the own enumerable properties an object spread {...v} copies, in order
\* (strings of the model have at most one character)
OwnProps(v) ==
  CASE v.t = "object" -> v.kv
    [] v.t = "array" -> [i \in 1..Len(v.el) |-> P(IndexKey(i - 1), v.el[i])]
    [] v.t = "string" -> IF v.s = "" THEN <<>> ELSE <<P("0", v)>>
    [] OTHER -> <<>>

HasKey(kv, k) == \E i \in 1..Len(kv) : kv[i].k = k
Lookup(kv, k) == kv[CHOOSE i \in 1..Len(kv) : kv[i].k = k].v
KeysOf(kv) == {kv[i].k : i \in 1..Len(kv)}

\* number of properties of kv that are enumerated before a new property k:
\* index keys come first in ascending order, other keys in creation order
InsertPos(kv, k) ==
  IF IsIndexKey(k)
  THEN Cardinality({i \in 1..Len(kv) :
                      IsIndexKey(kv[i].k) /\ IndexOf(kv[i].k) < IndexOf(k)})
  ELSE Len(kv)

\* CreateDataProperty: overwrite in place, or create at its ordinal place
DefineProp(kv, p) ==
  IF HasKey(kv, p.k)
  THEN [i \in 1..Len(kv) |-> IF kv[i].k = p.k THEN p ELSE kv[i]]
  ELSE LET n == InsertPos(kv, p.k)
       IN SubSeq(kv, 1, n) \o <<p>> \o SubSeq(kv, n + 1, Len(kv))

RECURSIVE SpreadInto(_, _)
SpreadInto(kv, props) ==
  IF props = <<>> THEN kv
  ELSE SpreadInto(DefineProp(kv, Head(props)), Tail(props))

\* a merge that replaces the target whatever the source is
MergeReplacing(target, source) == source

\* a merge that spreads whatever the source is
MergeSpreading(target, source) ==
  Obj(SpreadInto(SpreadInto(<<>>, OwnProps(target)), OwnProps(source)))

\* _merge(target, source)
Merge(target, source) ==
  IF TypeOf(source) = "object"
  THEN Obj(SpreadInto(SpreadInto(<<>>, OwnProps(target)), OwnProps(source)))
  ELSE source

\* property read v[k] on a value that is neither null nor undefined
GetProp(v, k) ==
  IF HasKey(OwnProps(v), k) THEN Lookup(OwnProps(v), k) ELSE Undef

(***************************************************************************)
(* JSON texts                                                              *)
(***************************************************************************)
JNull == [j |-> "null"]
JNum(n) == [j |-> "number", n |-> n]
JBool(b) == [j |-> "boolean", b |-> b]
JStr(s) == [j |-> "string", s |-> s]
JObj(kv) == [j |-> "object", kv |-> kv]
JArr(el) == [j |-> "array", el |-> el]
\* the text "undefined" (String(undefined)), which is not a JSON text
NotJSON == [j |-> "undefined"]
\* what localStorage.getItem gives for a key that has no item
NoItem == [j |-> "none"]

\* JSON.stringify(v): a JSON text, or undefined when v is undefined.  An
\* undefined property is left out, an undefined array element becomes null.
RECURSIVE Stringify(_)
Stringify(v) ==
  CASE v.t = "undefined" -> Undef
    [] v.t = "null" -> JNull
    [] v.t = "number" -> JNum(v.n)
    [] v.t = "boolean" -> JBool(v.b)
    [] v.t = "string" -> JStr(v.s)
    [] v.t = "object" ->
         LET kept == SelectSeq(v.kv, LAMBDA p : p.v.t # "undefined")
         IN JObj([i \in 1..Len(kept) |-> P(kept[i].k, Stringify(kept[i].v))])
    [] v.t = "array" ->
         JArr([i \in 1..Len(v.el) |->
                 IF v.el[i].t = "undefined" THEN JNull ELSE Stringify(v.el[i])])
    [] v.t = "ref" -> Stringify(heap[v.id])

\* ToString of the argument of JSON.parse or localStorage.setItem: a text
\* stays, undefined becomes "undefined" and null becomes "null"
ToText(x) ==
  IF "j" \in DOMAIN x THEN x
  ELSE IF x.t = "undefined" THEN NotJSON ELSE JNull

\* JSON.parse raises a SyntaxError on a text that is not JSON
ParseThrows(x) == ToText(x) = NotJSON

RECURSIVE ParseText(_)
ParseText(j) ==
  CASE j.j = "null" -> Null
    [] j.j = "number" -> Num(j.n)
    [] j.j = "boolean" -> Bool(j.b)
    [] j.j = "string" -> Str(j.s)
    [] j.j = "object" ->
         Obj(SpreadInto(<<>>, [i \in 1..Len(j.kv) |->
                                 P(j.kv[i].k, ParseText(j.kv[i].v))]))
    [] j.j = "array" -> Arr([i \in 1..Len(j.el) |-> ParseText(j.el[i])])

\* JSON.parse(x), where it does not raise
Parse(x) == ParseText(ToText(x))

\* a copy of the top level only: nested objects stay shared with obj
CloneShallow(obj) == IF obj.t = "ref" THEN heap[obj.id] ELSE obj

\* _clone(obj) = JSON.parse(JSON.stringify(obj))
CloneThrows(obj) == ParseThrows(Stringify(obj))
Clone(obj) == Parse(Stringify(obj))

\* what user code reads when it walks value v in heap h
RECURSIVE Deref(_, _)
Deref(v, h) ==
  CASE v.t = "ref" -> Deref(h[v.id], h)
    [] v.t = "object" ->
         Obj([i \in 1..Len(v.kv) |-> P(v.kv[i].k, Deref(v.kv[i].v, h))])
    [] v.t = "array" -> Arr([i \in 1..Len(v.el) |-> Deref(v.el[i], h)])
    [] OTHER -> v

(***************************************************************************)
(* Bounds                                                                  *)
(***************************************************************************)
\* cells created in one run
MaxCells == 2
\* subscriptions made in one run, over all cells
MaxSubs == 3
\* nesting depth up to which a user callback calls set again
MaxDepth == 2
\* updateUI calls that may wait for component.lazy() at one time
MaxPending == 2

\* calls of module methods (cart, auth, form) in one run
MaxCalls == 3
\* requests to the database in flight at one time
MaxSaves == 2

\* persistence keys; a falsy persistKey (null, "") means no persistence
NoKey == ""
Keys == {"k", "cart", "auth"}

(***************************************************************************)
(* State                                                                   *)
(***************************************************************************)
VARIABLES
  cells,           \* the cells made by createState: value, listeners, persistKey
  persistedState,  \* LiteZ.persistedState: key -> last value saved
  localStorage,    \* the browser's localStorage: key -> item text
  computeds,       \* the closures of createComputed: state, computeFn, memoize, cache, computed
  stack,           \* the running listeners.forEach loops, outermost first
  calls,           \* the set calls of the running top-level call
  log,             \* the callback invocations of the running top-level call
  nsubs,           \* subscriptions made so far
  thrown,          \* the exception the last top-level call raised, or "none"
  components,      \* LiteZ.components: name -> definition, or NoComponent
  bindings,        \* the closures of render: name, component, state, target, suspense
  dom,             \* the innerHTML of the elements of the document
  pending,         \* per binding, the updateUI calls waiting in await component.lazy()
  errors,          \* what _logError wrote during the latest top-level call
  lifecycles,      \* LiteZ.lifecycles: name -> the lifecycles registered
  events           \* the calls the render paths made during the latest top-level call

\* the variables createState, set and subscribe leave alone
\* the state of the modules built on the core:
\*   sqlDB    whether this.sqlDB is set
\*   saves    the promises the module methods await: the requests sqlAction
\*            has started and the onSubmit calls that have not settled
\*   backend  what the object stores of this.sqlDB hold, by store key
\*   settled  whether the request that settled last succeeded
\*   called   the latest call of a module method and its number
\*   bus      this.events: the callbacks registered for each event
\*   emits    the emit calls made by the latest step
\*   invoked  the callbacks those emit calls have invoked, in order
\*   form     the closure of createForm: its cell and its validators
\*   api      whether this.api is set
\* mounted[b]: the initial render of binding b has called onMount
VARIABLE mounted
\* bound[target]: the event listeners on the elements inside the element
\* target
VARIABLE bound

VARIABLES sqlDB, saves, backend, settled, called, bus, emits, invoked, form,
          api
dbVars == <<sqlDB, saves, backend, settled>>
busVars == <<bus, emits, invoked>>
moduleVars == <<dbVars, called, busVars, form, api>>

uiVars == <<components, lifecycles, bindings, dom, pending, heap, moduleVars,
           mounted, bound>>

vars == <<cells, persistedState, localStorage, computeds, stack, calls, log,
          nsubs, thrown, components, bindings, dom, pending, errors,
          lifecycles, events, heap, moduleVars, mounted,
          bound>>

\* a callback passed to subscribe: kind "fn" is the user function a, kind
\* "setter" is a user function that calls set(SetterArg) on cell a, kind
\* "computed" is the subscriber createComputed installs for computeds[a]
Callback(kind, a) == [kind |-> kind, a |-> a]

Cell(value, key) == [value |-> value, listeners |-> <<>>, key |-> key]

\* get(key): key ? value[key] : value, for a key that is absent or a name
Get(c) == cells[c].value

(***************************************************************************)
(* Persistence helpers                                                     *)
(***************************************************************************)
\* _persistState(key, value), on this.persistedState
PersistedAfter(ps, key, value) == [ps EXCEPT ![key] = value]
\* a store that merges what is saved into what it holds
StorageMerged(ls, key, value) ==
  [ls EXCEPT ![key] =
     ToText(Stringify(Merge(IF ls[key] = NoItem THEN Null ELSE Parse(ls[key]),
                            value)))]

\* _persistState(key, value), on localStorage
StorageAfter(ls, key, value) == [ls EXCEPT ![key] = ToText(Stringify(value))]

GetItem(ls, key) == IF ls[key] = NoItem THEN Null ELSE ls[key]
\* _loadPersistedState(key) = JSON.parse(localStorage.getItem(key))
LoadThrows(ls, key) == ParseThrows(GetItem(ls, key))
LoadPersistedState(ls, key) == Parse(GetItem(ls, key))

\* the default parameter initialValue = {}
InitialOrDefault(initialValue) ==
  IF initialValue = Undef THEN Obj(<<>>) ELSE initialValue

UsesStored(ls, persistKey) ==
  persistKey # NoKey /\ Truthy(LoadPersistedState(ls, persistKey))

CreateStateThrows(ls, initialValue, persistKey) ==
  IF persistKey # NoKey /\ LoadThrows(ls, persistKey) THEN TRUE
  ELSE IF UsesStored(ls, persistKey) THEN FALSE
  ELSE CloneThrows(InitialOrDefault(initialValue))

\* the value a new cell starts with
SeedValue(ls, initialValue, persistKey) ==
  IF UsesStored(ls, persistKey)
  THEN LoadPersistedState(ls, persistKey)
  ELSE Clone(InitialOrDefault(initialValue))

(***************************************************************************)
(* createState                                                             *)
(***************************************************************************)
CreateState(initialValue, persistKey) ==
  /\ stack = <<>>
  /\ Len(cells) < MaxCells
  /\ IF CreateStateThrows(localStorage, initialValue, persistKey)
     THEN /\ thrown' = "SyntaxError"
          /\ UNCHANGED <<cells, persistedState, localStorage>>
     ELSE LET value == SeedValue(localStorage, initialValue, persistKey)
          IN /\ cells' = Append(cells, Cell(value, persistKey))
             /\ IF persistKey # NoKey
                THEN /\ persistedState' =
                          PersistedAfter(persistedState, persistKey, value)
                     /\ localStorage' =
                          StorageAfter(localStorage, persistKey, value)
                ELSE UNCHANGED <<persistedState, localStorage>>
             /\ thrown' = "none"
  /\ UNCHANGED <<computeds, stack, calls, log, nsubs>>
  /\ UNCHANGED uiVars
  /\ errors' = <<>>
  /\ events' = <<>>

\* createState(initialValue), for the first cell of a run
CreateOnly(initialValue) ==
  /\ cells = <<>>
  /\ CreateState(initialValue, NoKey)

(***************************************************************************)
(* subscribe                                                               *)
(***************************************************************************)
\* a subscribe that forgets the callbacks subscribed before
SubscribedAlone(listeners, callback) == <<callback>>

\* subscribe: (callback) => listeners.push(callback)
Subscribed(listeners, callback) == Append(listeners, callback)

\* a callback that calls set on a cell closes over a cell that exists
Closed(callback) ==
  callback.kind = "setter" => callback.a \in 1..Len(cells)

Subscribe(c, callback) ==
  /\ stack = <<>>
  /\ c \in 1..Len(cells)
  /\ Closed(callback)
  /\ nsubs < MaxSubs
  /\ cells' = [cells EXCEPT ![c].listeners = Subscribed(@, callback)]
  /\ nsubs' = nsubs + 1
  /\ thrown' = "none"
  /\ UNCHANGED <<persistedState, localStorage, computeds, stack, calls, log>>
  /\ UNCHANGED uiVars
  /\ errors' = <<>>
  /\ events' = <<>>

(***************************************************************************)
(* set                                                                     *)
(***************************************************************************)
\* a frame is one listeners.forEach loop: idx is the next index to visit,
\* len the length of listeners when forEach was called
\* the loop of a set that notifies only when the merge changed the value
FrameIfChanged(c, id, len) ==
  [cell |-> c, call |-> id, idx |-> 1,
   len |-> IF cells'[c].value = cells[c].value THEN 0 ELSE len]

Frame(c, id, len) == [cell |-> c, call |-> id, idx |-> 1, len |-> len]

\* a dispatcher that queues a nested loop behind the running ones
PushQueued(stk, frame) == <<frame>> \o stk

\* calling a function puts its frame on top of the call stack
Push(stk, frame) == Append(stk, frame)
Top(stk) == stk[Len(stk)]
Pop(stk) == SubSeq(stk, 1, Len(stk) - 1)

\* a set that saves its argument
SavedArgument(value, newValue) == newValue

\* what set hands to _persistState: the merged value, not newValue
Saved(value, newValue) == value

\* the part of set before the forEach loop, on the stack stk and the log lg:
\* merge, persist, and enter the loop.  by is the log index of the callback
\* invocation that called set, 0 when user code called it directly.
BeginSet(stk, lg, c, newValue, by) ==
  LET value == Merge(cells[c].value, newValue)
      key == cells[c].key
      id == Len(calls) + 1
  IN /\ cells' = [cells EXCEPT ![c].value = value]
     /\ IF key # NoKey
        THEN /\ persistedState' =
                  PersistedAfter(persistedState, key, Saved(value, newValue))
             /\ localStorage' =
                  StorageAfter(localStorage, key, Saved(value, newValue))
        ELSE UNCHANGED <<persistedState, localStorage>>
     /\ stack' = Push(stk, Frame(c, id, Len(cells[c].listeners)))
     /\ calls' = Append(calls, [cell |-> c, arg |-> newValue, by |-> by,
                               before |-> cells[c].value,
                               subs |-> Len(cells[c].listeners),
                               done |-> FALSE])
     /\ log' = lg

\* user code calls cell.set(newValue)
Set(c, newValue) ==
  /\ stack = <<>>
  /\ c \in 1..Len(cells)
  /\ BeginSet(stack, log, c, newValue, 0)
  /\ thrown' = "none"
  /\ UNCHANGED <<computeds, nsubs>>
  /\ UNCHANGED uiVars
  /\ errors' = <<>>
  /\ events' = <<>>

\* a loop that visits the listeners last to first
ListenerAtReversed(listeners, i) == listeners[Len(listeners) + 1 - i]

\* the listener forEach visits at index i
ListenerAt(listeners, i) == listeners[i]

Running == stack # <<>> /\ Top(stack).idx <= Top(stack).len
Current == ListenerAt(cells[Top(stack).cell].listeners, Top(stack).idx)
\* the stack once the loop on top has moved on to its next index
Advanced == [stack EXCEPT ![Len(stack)].idx = @ + 1]
\* the record of the invocation callback() of the current listener
Invocation ==
  [call |-> Top(stack).call, pos |-> Top(stack).idx, cb |-> Current,
   nargs |-> 0, depth |-> Len(stack)]
Logged == Append(log, Invocation)

\* forEach calls a listener that is a user function which only observes
NotifyFn ==
  /\ Running
  /\ Current.kind = "fn"
  /\ stack' = Advanced
  /\ log' = Logged
  /\ UNCHANGED <<cells, persistedState, localStorage, computeds, calls,
                 nsubs, thrown>>
  /\ UNCHANGED uiVars
  /\ UNCHANGED <<errors, events>>

SetterArg == Obj(<<P("x", Num(1))>>)

\* forEach calls a listener that is a user function which calls set on cell
\* Current.a, unless it is nested MaxDepth deep already
NotifySetter ==
  /\ Running
  /\ Current.kind = "setter"
  /\ IF Len(stack) < MaxDepth
     THEN BeginSet(Advanced, Logged, Current.a, SetterArg, Len(log) + 1)
     ELSE /\ stack' = Advanced
          /\ log' = Logged
          /\ UNCHANGED <<cells, persistedState, localStorage, calls>>
  /\ UNCHANGED <<computeds, nsubs, thrown>>
  /\ UNCHANGED uiVars
  /\ UNCHANGED <<errors, events>>

(***************************************************************************)
(* createComputed                                                          *)
(***************************************************************************)
\* the compute functions user code passes to createComputed:
\*   isEven  (s) => s.n % 2 === 0
\*   tag     (s) => s.n === 1 ? {a: 1} : {b: 2}
\*   pair    (s) => s.n % 2 ? {a: 1, b: 2} : {b: 2, a: 1}
\*   picky   (s) => { if (s.n === 3) throw new Error(); return s.n % 2 === 0 }
ComputeFns == {"isEven", "tag", "pair"}

\* s.n % 2 is 1: false when s.n is not a number (NaN)
IsOdd(s) == GetProp(s, "n").t = "number" /\ GetProp(s, "n").n % 2 = 1
IsEven(s) == GetProp(s, "n").t = "number" /\ GetProp(s, "n").n % 2 = 0

\* computeFn(s) throws
Raises(fn, s) == fn = "picky" /\ GetProp(s, "n") = Num(3)

ComputeFn(fn, s) ==
  CASE fn \in {"isEven", "picky"} -> Bool(IsEven(s))
    [] fn = "tag" ->
         IF GetProp(s, "n") = Num(1)
         THEN Obj(<<P("a", Num(1))>>) ELSE Obj(<<P("b", Num(2))>>)
    [] fn = "pair" ->
         IF IsOdd(s)
         THEN Obj(<<P("a", Num(1)), P("b", Num(2))>>)
         ELSE Obj(<<P("b", Num(2)), P("a", Num(1))>>)

\* the closure of one createComputed call
Computed(state, computeFn, memoize, cache, computed) ==
  [state |-> state, computeFn |-> computeFn, memoize |-> memoize,
   cache |-> cache, computed |-> computed]

\* createComputed(state, computeFn, memoize)
CreateComputed(state, computeFn, memoize) ==
  LET result == ComputeFn(computeFn, cells[state].value)
      computed == Len(cells) + 1
      n == Len(computeds) + 1
  IN /\ stack = <<>>
     /\ state \in 1..Len(cells)
     /\ Len(cells) < MaxCells
     /\ nsubs < MaxSubs
     /\ IF Raises(computeFn, cells[state].value)
        THEN /\ thrown' = "Error"
             /\ UNCHANGED <<cells, computeds, nsubs>>
        ELSE IF CreateStateThrows(localStorage, result, NoKey)
        THEN /\ thrown' = "SyntaxError"
             /\ UNCHANGED <<cells, computeds, nsubs>>
        ELSE /\ cells' =
                  [Append(cells, Cell(SeedValue(localStorage, result, NoKey),
                                      NoKey))
                     EXCEPT ![state].listeners =
                              Subscribed(@, Callback("computed", n))]
             /\ computeds' =
                  Append(computeds,
                         Computed(state, computeFn, memoize,
                                  IF memoize THEN result ELSE Undef, computed))
             /\ nsubs' = nsubs + 1
             /\ thrown' = "none"
     /\ UNCHANGED <<persistedState, localStorage, stack, calls, log>>
     /\ UNCHANGED uiVars
     /\ errors' = <<>>
     /\ events' = <<>>

\* a subscriber that compares the texts whatever memoize says
ChangedText(memoize, newValue, cache) ==
  Stringify(newValue) # Stringify(cache)

\* the test of the subscriber of createComputed: the new value is set
\* unless memoize holds and it serialises to the same text as the cache
Changed(memoize, newValue, cache) ==
  ~memoize \/ Stringify(newValue) # Stringify(cache)

\* a loop that catches what its listener throws and moves on
Swallowed(stk) == [stk EXCEPT ![Len(stk)].idx = @ + 1]

\* an exception no frame catches leaves every frame of the call stack
Unwound(stk) == <<>>

\* forEach calls a listener that createComputed subscribed; when computeFn
\* throws, the exception leaves the listener, forEach and every set below
NotifyComputed ==
  /\ Running
  /\ Current.kind = "computed"
  /\ LET d == computeds[Current.a]
         newValue == ComputeFn(d.computeFn, cells[d.state].value)
     IN IF Raises(d.computeFn, cells[d.state].value)
        THEN /\ stack' = Unwound(stack)
             /\ thrown' = "Error"
             /\ calls' = <<>>
             /\ log' = <<>>
             /\ UNCHANGED <<cells, persistedState, localStorage, computeds>>
        ELSE IF Changed(d.memoize, newValue, d.cache)
        THEN /\ computeds' = [computeds EXCEPT ![Current.a].cache = newValue]
             /\ BeginSet(Advanced, Logged, d.computed, newValue, Len(log) + 1)
             /\ UNCHANGED thrown
        ELSE /\ stack' = Advanced
             /\ log' = Logged
             /\ UNCHANGED <<cells, persistedState, localStorage, computeds,
                            calls, thrown>>
  /\ UNCHANGED nsubs
  /\ UNCHANGED uiVars
  /\ UNCHANGED <<errors, events>>

(***************************************************************************)
(* createComponent and render                                              *)
(***************************************************************************)
Names == {"A", "B"}
Targets == {"#app"}

\* the templates user code passes to createComponent:
\*   view     (s) => `<p>${s.n}</p>`
\*   fragile  (s) => { if (!s.n) throw new Error(); return `<p>${s.n}</p>` }
\*   nested   (s) => `<div><p data-v-if="n">${s.n}</p></div>`
\*   missing  no function at all
Templates == {"view", "fragile", "nested"}

\* the lifecycles user code passes to createComponent:
\*   none     {}
\*   strict   { onMount: f, onUpdate: f } with
\*            f = (state) => { if (!state.get('n')) throw new Error() }
Lifecycles == {"none", "strict"}

NoComponent == [template |-> "missing", lazy |-> FALSE, defined |-> FALSE]
\* a definition with a template function; lazy is false or a loader function
Component(template, lazy) ==
  [template |-> template, lazy |-> lazy, defined |-> TRUE]

\* the markup component.template returns for the state value
Html(name, value) == [t |-> "html", by |-> name, of |-> value]

\* component.template(state.get(), this, context) throws
TemplateRaises(component, value) ==
  component.template = "fragile" /\ ~Truthy(GetProp(value, "n"))

\* _applyDirectives throws: v-if finds a falsy value for an element that is
\* not a child of the mount element, and parent.removeChild(el) throws
DirectiveRaises(component, value) ==
  component.template = "nested" /\ ~Truthy(GetProp(value, "n"))

\* the lifecycle function _callLifecycle finds and calls throws
LifecycleRaises(hooks, value) ==
  hooks = "strict" /\ ~Truthy(GetProp(value, "n"))

\* the messages of _logError
InvalidDefinition == "Invalid component definition"
ComponentNotFound == "Component not found"
TargetNotFound == "Target not found in DOM"
MountError == "Mount error"
RenderError == "Render error"

\* a test of the definition that looks at the name only
InvalidName(name, template) == name = ""

\* !name || typeof template !== 'function'
Invalid(name, template) == name = "" \/ template = "missing"

\* createComponent(name, { template, lifecycles, lazy })
CreateComponent(name, template, lazy, hooks) ==
  /\ stack = <<>>
  /\ IF Invalid(name, template)
     THEN /\ errors' = <<InvalidDefinition>>
          /\ UNCHANGED <<components, lifecycles>>
     ELSE /\ components' = [components EXCEPT ![name] =
                                                Component(template, lazy)]
          /\ lifecycles' = [lifecycles EXCEPT ![name] = hooks]
          /\ errors' = <<>>
  /\ thrown' = "none"
  /\ events' = <<>>
  /\ UNCHANGED <<cells, persistedState, localStorage, computeds, stack,
                 calls, log, nsubs, bindings, dom, pending, heap, mounted,
                 bound,
                 moduleVars>>

\* the values of the suspense option: none, {}, {loading: "w"} and
\* {fallback: "f"}
SuspenseOptions ==
  {Null, Obj(<<>>), Obj(<<P("loading", Str("w"))>>),
   Obj(<<P("fallback", Str("f"))>>)}

Binding(name, component, state, target, suspense) ==
  [name |-> name, component |-> component, state |-> state,
   target |-> target, suspense |-> suspense]

\* one call the render path of binding b makes into user code or into the
\* framework's own stages
Event(b, ev) == [b |-> b, ev |-> ev]

\* the calls of template -> _applyDirectives -> _bindEvents -> lifecycle for
\* binding b, up to the first one that throws
Pass(b, component, hooks, lifecycle, value) ==
  IF TemplateRaises(component, value)
  THEN <<Event(b, "template")>>
  ELSE IF DirectiveRaises(component, value)
  THEN <<Event(b, "template"), Event(b, "directives")>>
  ELSE <<Event(b, "template"), Event(b, "directives"), Event(b, "bind")>>
       \o (IF hooks = "none" THEN <<>> ELSE <<Event(b, lifecycle)>>)

\* the calls evs include the call ev
Calls(evs, ev) == \E i \in 1..Len(evs) : evs[i] = ev

\* one of the calls of the pass throws
PassRaises(component, hooks, value) ==
  \/ TemplateRaises(component, value)
  \/ DirectiveRaises(component, value)
  \/ LifecycleRaises(hooks, value)

\* a pass that never assigns element.innerHTML
Unwritten(d, target, name, component, value) == d

\* element.innerHTML after the try block of a pass: the template output,
\* unless the template itself threw
Written(d, target, name, component, value) ==
  IF TemplateRaises(component, value)
  THEN d
  ELSE [d EXCEPT ![target] = Html(name, value)]

\* the handler names of the model: every template writes one element with
\* data-on="click:name" for each name of DataOn; setup returns the context
\* { inc }, window has the function go, and a cell has get, set and
\* subscribe
DataOn == {"inc", "go", "set", "nope"}
ContextNames == {"inc"}
WindowNames == {"go"}
CellNames == {"get", "set", "subscribe"}

\* the names of the functions of the object obj
NamesOf(obj) == IF obj = "context" THEN ContextNames ELSE CellNames

\* el.addEventListener(event, (e) => handler(e, context)) for the handler
\* context[handlerName] || window[handlerName]: where the handler was found
\* and what the listener passes as second argument
Listener(name, context) ==
  [name |-> name,
   handler |-> IF name \in NamesOf(context) THEN context ELSE "window",
   second |-> context]

\* _bindEvents(element, context): a listener for every data-on element whose
\* handler is a function
BindEvents(context) ==
  {Listener(name, context) :
     name \in {n \in DataOn : n \in NamesOf(context) \cup WindowNames}}

\* the second argument of the call this._bindEvents(element, state, context)
SecondArgument == "cell"

\* the listeners inside the mount element after the try block of a pass: a
\* template that returns replaces the elements, and _bindEvents is reached
\* unless _applyDirectives throws
Attached(bd, target, component, value) ==
  IF TemplateRaises(component, value) THEN bd
  ELSE IF DirectiveRaises(component, value)
  THEN [bd EXCEPT ![target] = {}]
  ELSE [bd EXCEPT ![target] = BindEvents(SecondArgument)]

\* render(name, props, target, { suspense }), with a setup that returns
\* { inc }
Render(name, props, target, suspense) ==
  LET state == Len(cells) + 1
      b == Len(bindings) + 1
      value == SeedValue(localStorage, props, NoKey)
      component == components[name]
  IN /\ stack = <<>>
     /\ Len(cells) < MaxCells
     /\ nsubs < MaxSubs
     /\ ~CreateStateThrows(localStorage, props, NoKey)
     /\ thrown' = "none"
     /\ IF ~component.defined \/ target \notin Targets
        THEN /\ errors' = IF ~component.defined
                          THEN <<ComponentNotFound>>
                          ELSE <<TargetNotFound>>
             /\ events' = <<>>
             /\ UNCHANGED <<cells, bindings, pending, dom, nsubs, mounted,
                            bound>>
        ELSE /\ cells' =
                  Append(cells,
                         [Cell(value, NoKey) EXCEPT
                            !.listeners =
                              Subscribed(@, Callback("updateUI", b))])
             /\ bindings' = Append(bindings,
                                   Binding(name, component, state, target,
                                           suspense))
             /\ pending' = Append(pending, 0)
             /\ nsubs' = nsubs + 1
             /\ events' = <<Event(b, "setup")>>
                          \o Pass(b, component, lifecycles[name], "onMount",
                                  value)
             /\ dom' = Written(dom, target, name, component, value)
             /\ errors' = IF PassRaises(component, lifecycles[name], value)
                          THEN <<MountError>>
                          ELSE <<>>
             /\ bound' = Attached(bound, target, component, value)
             /\ mounted' = Append(mounted,
                                  Calls(Pass(b, component, lifecycles[name],
                                             "onMount", value),
                                        Event(b, "onMount")))
     /\ UNCHANGED <<persistedState, localStorage, computeds, stack, calls,
                    log, components, lifecycles, heap, moduleVars>>

\* updateUI awaits component.lazy() before it calls the template
Suspends(b) == Truthy(bindings[b].suspense) /\ bindings[b].component.lazy

\* suspense.loading || 'Loading...'
LoadingMarkup(b) ==
  IF Truthy(GetProp(bindings[b].suspense, "loading"))
  THEN GetProp(bindings[b].suspense, "loading")
  ELSE Str("Loading...")

\* the current value of the local cell of binding b
Local(b) == cells[bindings[b].state].value

\* updateUI of binding b throws in its try block
UpdateRaises(b) ==
  PassRaises(bindings[b].component, lifecycles[bindings[b].name], Local(b))

\* _handleError(e, name, element, suspense?.fallback): the fallback, when
\* there is one, replaces the content of the element
HandleError(d, b) ==
  IF Truthy(GetProp(bindings[b].suspense, "fallback"))
  THEN [d EXCEPT ![bindings[b].target] =
                   GetProp(bindings[b].suspense, "fallback")]
  ELSE d

\* an updateUI that leaves the element as it was
Unrendered(b) == dom

\* the part of updateUI after the await: the template output is written,
\* and what the try block throws goes to _handleError
Rendered(b) ==
  LET written == Written(dom, bindings[b].target, bindings[b].name,
                         bindings[b].component, Local(b))
  IN IF UpdateRaises(b) THEN HandleError(written, b) ELSE written

\* the listeners after that part: the fallback markup has none
Rebound(b) ==
  LET attached == Attached(bound, bindings[b].target, bindings[b].component,
                           Local(b))
  IN IF UpdateRaises(b) /\ Truthy(GetProp(bindings[b].suspense, "fallback"))
     THEN [attached EXCEPT ![bindings[b].target] = {}]
     ELSE attached

\* the calls that part makes
UpdatePass(b) ==
  Pass(b, bindings[b].component, lifecycles[bindings[b].name], "onUpdate",
       Local(b))

\* an updateUI without a try block: what the template throws leaves forEach
Uncaught(stk) == <<>>

\* the stack after updateUI has caught what its try block threw: updateUI
\* returns and forEach moves on
Caught(stk) == [stk EXCEPT ![Len(stk)].idx = @ + 1]

\* forEach calls a listener that is the updateUI of a binding: it runs up
\* to its first await, or to its end when it has none
NotifyUpdateUI ==
  /\ Running
  /\ Current.kind = "updateUI"
  /\ stack' = IF ~Suspends(Current.a) /\ UpdateRaises(Current.a)
              THEN Caught(stack)
              ELSE Advanced
  /\ log' = Logged
  /\ IF Suspends(Current.a)
     THEN /\ dom' = [dom EXCEPT ![bindings[Current.a].target] =
                                  LoadingMarkup(Current.a)]
          /\ bound' = [bound EXCEPT ![bindings[Current.a].target] = {}]
          /\ pending' = [pending EXCEPT ![Current.a] = @ + 1]
          /\ UNCHANGED <<errors, events>>
     ELSE /\ dom' = Rendered(Current.a)
          /\ bound' = Rebound(Current.a)
          /\ events' = events \o UpdatePass(Current.a)
          /\ errors' = IF UpdateRaises(Current.a)
                       THEN Append(errors, RenderError)
                       ELSE errors
          /\ UNCHANGED pending
  /\ UNCHANGED <<cells, persistedState, localStorage, computeds, calls,
                 nsubs, thrown, components, lifecycles, bindings, heap,
                 mounted, moduleVars>>

\* component.lazy() has settled: an updateUI call of binding b continues
\* after its await, in a later turn of the event loop
Resume(b) ==
  /\ stack = <<>>
  /\ b \in 1..Len(bindings)
  /\ pending[b] > 0
  /\ dom' = Rendered(b)
  /\ bound' = Rebound(b)
  /\ pending' = [pending EXCEPT ![b] = @ - 1]
  /\ events' = UpdatePass(b)
  /\ errors' = IF UpdateRaises(b) THEN <<RenderError>> ELSE <<>>
  /\ UNCHANGED <<cells, persistedState, localStorage, computeds, stack,
                 calls, log, nsubs, thrown, components, lifecycles, bindings,
                 heap, mounted, moduleVars>>

\* user code calls set on the local cell of a binding while fewer than
\* MaxPending updateUI calls are waiting
SetLocal(b, newValue) ==
  /\ b \in 1..Len(bindings)
  /\ \A i \in 1..Len(pending) : pending[i] < MaxPending
  /\ Set(bindings[b].state, newValue)

\* something outside the framework leaves a text that is not JSON under key
Corrupt(key) ==
  /\ stack = <<>>
  /\ localStorage[key] # NotJSON
  /\ localStorage' = [localStorage EXCEPT ![key] = NotJSON]
  /\ UNCHANGED <<cells, persistedState, computeds, stack, calls, log, nsubs,
                 thrown, errors, events>>
  /\ UNCHANGED uiVars

\* get(key) evaluates value[key] on null or undefined: a TypeError
GetThrows(c, key) ==
  Truthy(key) /\ cells[c].value.t \in {"undefined", "null"}

\* what get(key) returns when it returns: key ? value[key] : value
GetKey(c, key) ==
  IF Truthy(key) THEN GetProp(cells[c].value, key.s) ELSE cells[c].value

\* user code calls cell.get(key); key is undefined when it passes none
GetCall(c, key) ==
  /\ stack = <<>>
  /\ c \in 1..Len(cells)
  /\ thrown' = IF GetThrows(c, key) THEN "TypeError" ELSE "none"
  /\ errors' = <<>>
  /\ events' = <<>>
  /\ UNCHANGED <<cells, persistedState, localStorage, computeds, stack,
                 calls, log, nsubs>>
  /\ UNCHANGED uiVars

\* user code assigns o[k] = v on object id of its own
Mutate(id, k, v) ==
  /\ stack = <<>>
  /\ id \in 1..Len(heap)
  /\ heap' = [heap EXCEPT ![id] = Obj(DefineProp(OwnProps(@), P(k, v)))]
  /\ UNCHANGED <<cells, persistedState, localStorage, computeds, stack,
                 calls, log, nsubs, thrown, components, lifecycles, bindings,
                 dom, pending, errors, events, moduleVars, mounted,
                 bound>>

\* forEach has visited every listener: set returns.  The records of a
\* top-level call are dropped when it returns.
Return ==
  /\ stack # <<>>
  /\ Top(stack).idx > Top(stack).len
  /\ stack' = Pop(stack)
  /\ IF Len(stack) = 1
     THEN calls' = <<>> /\ log' = <<>>
     ELSE /\ calls' = [calls EXCEPT ![Top(stack).call].done = TRUE]
          /\ UNCHANGED log
  /\ UNCHANGED <<cells, persistedState, localStorage, computeds, nsubs,
                 thrown>>
  /\ UNCHANGED uiVars
  /\ UNCHANGED <<errors, events>>

\* forEach calls a listener that is a user function which throws: the
\* exception leaves forEach and every set below it
NotifyRaiser ==
  /\ Running
  /\ Current.kind = "raiser"
  /\ stack' = Unwound(stack)
  /\ thrown' = "Error"
  /\ calls' = <<>>
  /\ log' = <<>>
  /\ UNCHANGED <<cells, persistedState, localStorage, computeds, nsubs>>
  /\ UNCHANGED uiVars
  /\ UNCHANGED <<errors, events>>

(***************************************************************************)
(* on, emit, off                                                           *)
(***************************************************************************)
Events == {"login", "logout"}

\* this.events[event] before the first on(event, ...): undefined
NoCallbacks == [defined |-> FALSE, list |-> <<>>]

\* no module method has been called yet
NoCall == [n |-> 0, op |-> "none", arg |-> Undef]
Call(op, arg) == [n |-> called.n + 1, op |-> op, arg |-> arg]
BusArg(event, cb, payload) == [event |-> event, cb |-> cb, payload |-> payload]

\* the array emit runs forEach on
Registered(b, event) == IF b[event].defined THEN b[event].list ELSE <<>>

\* an on that puts the callback in front of the others
Unshifted(list, callback) == <<callback>> \o list

\* this.events[event].push(callback)
Listening(list, callback) == Append(list, callback)

\* on(event, callback)
On(event, callback) ==
  /\ stack = <<>>
  /\ called.n < MaxCalls
  /\ bus' = [bus EXCEPT ![event] =
               [defined |-> TRUE, list |-> Listening(@.list, callback)]]
  /\ called' = Call("on", BusArg(event, callback, Undef))
  /\ emits' = <<>>
  /\ invoked' = <<>>
  /\ UNCHANGED <<dbVars, form, api>>
  /\ UNCHANGED <<cells, persistedState, localStorage, computeds, stack,
                 calls, log, nsubs, thrown, components, lifecycles, bindings,
                 dom, pending, errors, events, heap,
                 mounted, bound>>

\* this.events[event].filter((cb) => cb !== callback)
Filtered(list, callback) == SelectSeq(list, LAMBDA cb : cb # callback)

\* off(event, callback)
Off(event, callback) ==
  /\ stack = <<>>
  /\ called.n < MaxCalls
  /\ bus' = IF bus[event].defined
            THEN [bus EXCEPT ![event].list = Filtered(@, callback)]
            ELSE bus
  /\ called' = Call("off", BusArg(event, callback, Undef))
  /\ emits' = <<>>
  /\ invoked' = <<>>
  /\ UNCHANGED <<dbVars, form, api>>
  /\ UNCHANGED <<cells, persistedState, localStorage, computeds, stack,
                 calls, log, nsubs, thrown, components, lifecycles, bindings,
                 dom, pending, errors, events, heap,
                 mounted, bound>>

\* the callbacks user code registers: "fn" only observes, "raiser" throws,
\* "off" calls off(event, f) on the "fn" callback f of the same number.
\* One of the callbacks of the array throws
EmitRaises(list) == \E i \in 1..Len(list) : list[i].kind = "raiser"

\* the callbacks forEach reaches: all of them, or those up to the first one
\* that throws
Visited(list) ==
  IF EmitRaises(list)
  THEN SubSeq(list, 1, CHOOSE i \in 1..Len(list) :
                         /\ list[i].kind = "raiser"
                         /\ \A j \in 1..(i - 1) : list[j].kind # "raiser")
  ELSE list

\* the calls cb(payload) of one emit
Invocations(list, event, payload) ==
  [i \in 1..Len(Visited(list)) |->
     [event |-> event, cb |-> Visited(list)[i], payload |-> payload]]

\* this.events once the callbacks reached have run: forEach goes on over
\* the array it started with, off replaces this.events[event]
RECURSIVE AfterCallbacks(_, _, _)
AfterCallbacks(b, event, visited) ==
  IF visited = <<>> THEN b
  ELSE LET cb == Head(visited)
           next == IF cb.kind = "off"
                   THEN [b EXCEPT ![event].list =
                                    Filtered(@, Callback("fn", cb.a))]
                   ELSE b
       IN AfterCallbacks(next, event, Tail(visited))

\* emit(event, payload), as user code calls it
Emit(event, payload) ==
  /\ stack = <<>>
  /\ called.n < MaxCalls
  /\ emits' = <<[event |-> event, payload |-> payload]>>
  /\ invoked' = Invocations(Registered(bus, event), event, payload)
  /\ bus' = AfterCallbacks(bus, event, Visited(Registered(bus, event)))
  /\ thrown' = IF EmitRaises(Registered(bus, event)) THEN "Error" ELSE "none"
  /\ called' = Call("emit", BusArg(event, Undef, payload))
  /\ UNCHANGED <<dbVars, form, api>>
  /\ UNCHANGED <<cells, persistedState, localStorage, computeds, stack,
                 calls, log, nsubs, components, lifecycles, bindings,
                 dom, pending, errors, events, heap,
                 mounted, bound>>

(***************************************************************************)
(* sqlAction                                                               *)
(***************************************************************************)
\* the store keys the modules write: store 'cart' under 'user_cart',
\* and store 'auth' under the email of the credentials
Emails == {"a@x"}
StoreKeys == {"user_cart"} \cup Emails

\* initSQL has connected: this.sqlDB = e.target.result
InitSQL ==
  /\ stack = <<>>
  /\ ~sqlDB
  /\ sqlDB' = TRUE
  /\ emits' = <<>>
  /\ invoked' = <<>>
  /\ UNCHANGED <<saves, backend, settled, called, bus, form, api>>
  /\ UNCHANGED <<cells, persistedState, localStorage, computeds, stack,
                 calls, log, nsubs, thrown, components, lifecycles, bindings,
                 dom, pending, errors, events, heap,
                 mounted, bound>>

\* sqlAction(store, 'put', { key, value: cell.get() }): the request holds
\* the value the cell has when the call is made
Put(key, value, op, arg) ==
  [action |-> "put", key |-> key, value |-> value, by |-> called.n + 1,
   op |-> op, arg |-> arg]

\* sqlAction(store, 'delete', { key })
Delete(key, op) ==
  [action |-> "delete", key |-> key, value |-> Undef, by |-> called.n + 1,
   op |-> op, arg |-> Undef]

\* the stores once request req has succeeded
Stored(b, req) ==
  IF req.action \in {"put", "delete"}
  THEN [b EXCEPT ![req.key] = req.value]
  ELSE b

\* a settling request that takes every other request with it
WithoutAll(seq, i) == <<>>

\* the requests still in flight once request i has settled
Without(seq, i) == SubSeq(seq, 1, i - 1) \o SubSeq(seq, i + 1, Len(seq))

(***************************************************************************)
(* createCart                                                              *)
(***************************************************************************)
EmptyCart == Obj(<<P("items", Arr(<<>>)), P("total", Num(0))>>)

\* the cell createCart made, if it has been called
HasCart == \E c \in 1..Len(cells) : cells[c].key = "cart"
CartCell == CHOOSE c \in 1..Len(cells) : cells[c].key = "cart"

\* createCart(): createState({ items: [], total: 0 }, 'cart')
CreateCart ==
  /\ ~HasCart
  /\ CreateState(EmptyCart, "cart")

\* set on a cell nobody has subscribed to, with the saves that follow it:
\* merge, persist, an empty forEach, then the sqlAction call when this.sqlDB
\* is set
SetAndSave(c, newValue, op, arg) ==
  LET value == Merge(cells[c].value, newValue)
      key == cells[c].key
  IN /\ cells[c].listeners = <<>>
     /\ Len(saves) < MaxSaves
     /\ cells' = [cells EXCEPT ![c].value = value]
     /\ persistedState' = PersistedAfter(persistedState, key, value)
     /\ localStorage' = StorageAfter(localStorage, key, value)
     /\ saves' = IF sqlDB
                 THEN Append(saves, Put("user_cart", value, op, arg))
                 ELSE saves
     /\ called' = Call(op, arg)
     /\ thrown' = "none"
     /\ errors' = <<>>
     /\ events' = <<>>
     /\ emits' = <<>>
     /\ invoked' = <<>>
     /\ UNCHANGED <<sqlDB, backend, settled, bus, form, api>>
     /\ UNCHANGED <<computeds, stack, calls, log, nsubs, components,
                    lifecycles, bindings, dom, pending, heap,
                 mounted, bound>>

\* items.find(i => i.id === item.id): the index of the first match, 0 when
\* there is none
Find(items, id) ==
  IF \E i \in 1..Len(items) : GetProp(items[i], "id") = id
  THEN CHOOSE i \in 1..Len(items) :
         /\ GetProp(items[i], "id") = id
         /\ \A j \in 1..(i - 1) : GetProp(items[j], "id") # id
  ELSE 0

\* { ...item, quantity: q }
WithQuantity(item, q) ==
  Obj(DefineProp(OwnProps(item), P("quantity", Num(q))))

\* an addItem that pushes whether or not the id is in the cart
Pushed(items, item) == Append(items, WithQuantity(item, 1))

\* items after existing.quantity += 1, or after items.push({ ...item,
\* quantity: 1 })
Added(items, item) ==
  LET i == Find(items, GetProp(item, "id"))
  IN IF i > 0
     THEN [items EXCEPT
             ![i] = WithQuantity(@, GetProp(@, "quantity").n + 1)]
     ELSE Append(items, WithQuantity(item, 1))

\* items.filter(i => i.id !== id)
Removed(items, id) == SelectSeq(items, LAMBDA i : GetProp(i, "id") # id)

\* items.reduce((sum, i) => sum + i.price * i.quantity, 0)
RECURSIVE Total(_)
Total(items) ==
  IF items = <<>> THEN 0
  ELSE Total(SubSeq(items, 1, Len(items) - 1))
       + GetProp(items[Len(items)], "price").n
         * GetProp(items[Len(items)], "quantity").n

CartUpdate(items) == Obj(<<P("items", Arr(items)), P("total", Num(Total(items)))>>)

Items(c) == GetProp(cells[c].value, "items").el

\* cart.addItem(item), up to its first await
AddItem(item) ==
  /\ stack = <<>>
  /\ HasCart
  /\ called.n < MaxCalls
  /\ SetAndSave(CartCell, CartUpdate(Added(Items(CartCell), item)),
                "addItem", item)

\* cart.removeItem(id), up to its first await
RemoveItem(id) ==
  /\ stack = <<>>
  /\ HasCart
  /\ called.n < MaxCalls
  /\ SetAndSave(CartCell, CartUpdate(Removed(Items(CartCell), id)),
                "removeItem", id)

\* cart.checkout(), up to its first await
Checkout ==
  /\ stack = <<>>
  /\ HasCart
  /\ called.n < MaxCalls
  /\ SetAndSave(CartCell, CartUpdate(<<>>), "checkout", Undef)

(***************************************************************************)
(* createAuth                                                              *)
(***************************************************************************)
NoSession == Obj(<<P("user", Null), P("token", Null), P("error", Null)>>)

\* the cell createAuth made, if it has been called
HasAuth == \E c \in 1..Len(cells) : cells[c].key = "auth"
AuthCell == CHOOSE c \in 1..Len(cells) : cells[c].key = "auth"

\* createAuth(): createState({ user: null, token: null, error: null },
\* 'auth')
CreateAuth ==
  /\ ~HasAuth
  /\ CreateState(NoSession, "auth")

\* response.user = { name: credentials.email }
User(email) == Obj(<<P("name", Str(email))>>)
\* response.token = 'mock-token-' + Date.now(): a string that is not empty
Token == Str("mock-token")
\* the argument of the set of login
Session(email) ==
  Obj(<<P("user", User(email)), P("token", Token), P("error", Null)>>)
\* the argument of the set of the catch block of login
LoginFailed == Obj(<<P("error", Str("Login failed"))>>)

\* authState.get('user')?.name is truthy
UserEmail(v) == GetProp(GetProp(v, "user"), "name")
HasEmail(v) == GetProp(v, "user").t = "object" /\ Truthy(UserEmail(v))

\* getUser() and isAuthenticated()
GetUser == GetProp(cells[AuthCell].value, "user")
IsAuthenticated == Truthy(GetProp(cells[AuthCell].value, "token"))

\* getError()
GetError == GetProp(cells[AuthCell].value, "error")

\* the cell of a module after set(newValue): the cell is private to the
\* module, so forEach finds no listener
Assigned(c, value) ==
  /\ cells[c].listeners = <<>>
  /\ cells' = [cells EXCEPT ![c].value = value]
  /\ IF cells[c].key # NoKey
     THEN /\ persistedState' =
               PersistedAfter(persistedState, cells[c].key, value)
          /\ localStorage' = StorageAfter(localStorage, cells[c].key, value)
     ELSE UNCHANGED <<persistedState, localStorage>>

\* this.emit(event, payload) from inside a module method
Emitted(event, payload) ==
  /\ emits' = <<[event |-> event, payload |-> payload]>>
  /\ invoked' = Invocations(Registered(bus, event), event, payload)
  /\ bus' = AfterCallbacks(bus, event, Visited(Registered(bus, event)))

\* auth.login({ email }), up to its first await, or to its end when no
\* database is connected; what emit throws goes to the catch block
Login(email) ==
  LET c == AuthCell
      first == Merge(cells[c].value, Session(email))
      raises == ~sqlDB /\ EmitRaises(Registered(bus, "login"))
  IN /\ stack = <<>>
     /\ HasAuth
     /\ called.n < MaxCalls
     /\ Len(saves) < MaxSaves
     /\ Assigned(c, IF raises THEN Merge(first, LoginFailed) ELSE first)
     /\ IF sqlDB
        THEN /\ saves' = Append(saves, Put(email, first, "login",
                                           User(email)))
             /\ emits' = <<>>
             /\ invoked' = <<>>
             /\ UNCHANGED bus
        ELSE /\ Emitted("login", User(email))
             /\ UNCHANGED saves
     /\ called' = Call("login", Str(email))
     /\ thrown' = "none"
     /\ errors' = <<>>
     /\ events' = <<>>
     /\ UNCHANGED <<sqlDB, backend, settled, form, api>>
     /\ UNCHANGED <<computeds, stack, calls, log, nsubs, components,
                    lifecycles, bindings, dom, pending, heap,
                 mounted, bound>>

\* auth.logout(), up to its first await, or to its end when no database is
\* connected or no user is logged in
Logout ==
  LET c == AuthCell
      awaits == sqlDB /\ HasEmail(cells[c].value)
  IN /\ stack = <<>>
     /\ HasAuth
     /\ called.n < MaxCalls
     /\ Len(saves) < MaxSaves
     /\ Assigned(c, Merge(cells[c].value, NoSession))
     /\ IF awaits
        THEN /\ saves' = Append(saves, Delete(UserEmail(cells[c].value).s,
                                              "logout"))
             /\ emits' = <<>>
             /\ invoked' = <<>>
             /\ UNCHANGED bus
        ELSE /\ Emitted("logout", Undef)
             /\ UNCHANGED saves
     /\ called' = Call("logout", Undef)
     /\ thrown' = "none"
     /\ errors' = <<>>
     /\ events' = <<>>
     /\ UNCHANGED <<sqlDB, backend, settled, form, api>>
     /\ UNCHANGED <<computeds, stack, calls, log, nsubs, components,
                    lifecycles, bindings, dom, pending, heap,
                 mounted, bound>>

(***************************************************************************)
(* createForm                                                              *)
(***************************************************************************)
\* createForm has not been called
NoForm == [cell |-> 0, validators |-> <<>>]

\* the rules of one field: required, minLength (0: none) and pattern
\* ("none", or "digits" for /^\d+$/)
Rules(required, minLength, pattern) ==
  [required |-> required, minLength |-> minLength, pattern |-> pattern]
Validator(field, rules) == [field |-> field, rules |-> rules]

\* rules.pattern.test(value): test turns its argument into a string
Test(pattern, value) ==
  pattern = "digits" /\ value.t = "string" /\ value.s \in {"12"}

\* value.length throws: value is undefined or null
LengthThrows(value) == value.t \in {"undefined", "null"}
Length(value) == IF value.t = "string" THEN Len(value.s) ELSE 0

\* validateField(field, value) reaches value.length on undefined
ValidateThrows(rules, value) ==
  /\ ~(rules.required /\ ~Truthy(value))
  /\ rules.minLength # 0
  /\ LengthThrows(value)

\* validateField(field, value) for a field with rules; this.t(key) returns
\* the key when there is no translation
ValidateField(rules, value) ==
  IF rules.required /\ ~Truthy(value) THEN Str("validation.required")
  ELSE IF rules.minLength # 0 /\ Length(value) < rules.minLength
  THEN Str("validation.minLength")
  ELSE IF rules.pattern # "none" /\ ~Test(rules.pattern, value)
  THEN Str("validation.invalidFormat")
  ELSE Null

\* the object errors of submit: a message or null for every key of
\* validators, in their order
RECURSIVE ErrorsOf(_, _)
ErrorsOf(validators, values) ==
  IF validators = <<>> THEN <<>>
  ELSE DefineProp(ErrorsOf(SubSeq(validators, 1, Len(validators) - 1),
                           values),
                  P(validators[Len(validators)].field,
                    ValidateField(validators[Len(validators)].rules,
                                  GetProp(values,
                                          validators[Len(validators)].field))))

\* one of the validateField calls of submit throws
SubmitThrows(validators, values) ==
  \E i \in 1..Len(validators) :
    ValidateThrows(validators[i].rules, GetProp(values, validators[i].field))

\* Object.values(errors).every((e) => !e)
Passes(messages) == \A i \in 1..Len(messages) : ~Truthy(messages[i].v)

\* createForm(initialValues, validators)
CreateForm(initialValues, validators) ==
  /\ form = NoForm
  /\ stack = <<>>
  /\ Len(cells) < MaxCells
  /\ cells' = Append(cells,
                     Cell(Clone(Obj(<<P("values", initialValues),
                                      P("errors", Obj(<<>>)),
                                      P("isSubmitting", Bool(FALSE))>>)),
                          NoKey))
  /\ form' = [cell |-> Len(cells) + 1, validators |-> validators]
  /\ thrown' = "none"
  /\ errors' = <<>>
  /\ events' = <<>>
  /\ UNCHANGED <<dbVars, called, busVars, api>>
  /\ UNCHANGED <<persistedState, localStorage, computeds, stack, calls, log,
                 nsubs, components, lifecycles, bindings, dom, pending, heap,
                 mounted, bound>>

\* the rules of a field: validators[field] || {}
RulesOf(validators, field) ==
  IF \E i \in 1..Len(validators) : validators[i].field = field
  THEN validators[CHOOSE i \in 1..Len(validators) :
                    validators[i].field = field].rules
  ELSE Rules(FALSE, 0, "none")

\* form.bind(field).oninput({ target: { value } })
Input(field, value) ==
  LET c == form.cell
      v == cells[c].value
      rules == RulesOf(form.validators, field)
      update ==
        Obj(<<P("values",
                Obj(DefineProp(OwnProps(GetProp(v, "values")),
                               P(field, value)))),
              P("errors",
                Obj(DefineProp(OwnProps(GetProp(v, "errors")),
                               P(field, ValidateField(rules, value)))))>>)
  IN /\ stack = <<>>
     /\ form # NoForm
     /\ called.n < MaxCalls
     /\ Assigned(c, Merge(v, update))
     /\ called' = Call("input", Str(field))
     /\ thrown' = "none"
     /\ errors' = <<>>
     /\ events' = <<>>
     /\ emits' = <<>>
     /\ invoked' = <<>>
     /\ UNCHANGED <<dbVars, bus, form, api>>
     /\ UNCHANGED <<computeds, stack, calls, log, nsubs, components,
                    lifecycles, bindings, dom, pending, heap, mounted, bound>>

\* the promise onSubmit(values) returned, which submit awaits
Submitted(values) ==
  [action |-> "onSubmit", key |-> "", value |-> values, by |-> called.n + 1,
   op |-> "submit", arg |-> Undef]

\* a submit that resets the flag only when onSubmit resolves
AfterResolved(value, ok) ==
  IF ok THEN Merge(value, Obj(<<P("isSubmitting", Bool(FALSE))>>)) ELSE value

\* finally { formState.set({ isSubmitting: false }) }: the cell after
\* onSubmit has settled
AfterSubmit(value, ok) ==
  Merge(value, Obj(<<P("isSubmitting", Bool(FALSE))>>))

\* form.submit(onSubmit), up to its await; a validateField that throws
\* rejects the promise of submit before anything is set
Submit ==
  LET c == form.cell
      v == cells[c].value
      values == GetProp(v, "values")
      errs == ErrorsOf(form.validators, values)
      checked == Merge(v, Obj(<<P("errors", Obj(errs))>>))
  IN /\ stack = <<>>
     /\ form # NoForm
     /\ called.n < MaxCalls
     /\ Len(saves) < MaxSaves
     /\ IF SubmitThrows(form.validators, values)
        THEN /\ thrown' = "TypeError"
             /\ UNCHANGED <<cells, persistedState, localStorage, saves>>
        ELSE /\ thrown' = "none"
             /\ IF Passes(errs)
                THEN /\ Assigned(c, Merge(checked,
                                    Obj(<<P("isSubmitting", Bool(TRUE))>>)))
                     /\ saves' = Append(saves, Submitted(values))
                ELSE /\ Assigned(c, checked)
                     /\ UNCHANGED saves
     /\ called' = Call("submit", Undef)
     /\ errors' = <<>>
     /\ events' = <<>>
     /\ emits' = <<>>
     /\ invoked' = <<>>
     /\ UNCHANGED <<sqlDB, backend, settled, bus, form, api>>
     /\ UNCHANGED <<computeds, stack, calls, log, nsubs, components,
                    lifecycles, bindings, dom, pending, heap, mounted, bound>>

(***************************************************************************)
(* createCart with initApi (the second copy of the framework)              *)
(***************************************************************************)
\* initApi({ baseURL }), in a browser with fetch
InitApi ==
  /\ stack = <<>>
  /\ ~api
  /\ api' = TRUE
  /\ thrown' = "none"
  /\ errors' = <<>>
  /\ events' = <<>>
  /\ emits' = <<>>
  /\ invoked' = <<>>
  /\ UNCHANGED <<dbVars, called, bus, form>>
  /\ UNCHANGED <<cells, persistedState, localStorage, computeds, stack, calls,
                 log, nsubs, components, lifecycles, bindings, dom, pending,
                 heap, mounted, bound>>

\* api.post(url, data): request builds body: JSON.stringify(data) before its
\* first await, so the request carries the data of the moment of the call
Post(data, op) ==
  [action |-> "post", key |-> "", value |-> Parse(Stringify(data)),
   by |-> called.n + 1, op |-> op, arg |-> Undef]

\* the cart after cartState.set({ items: [], total: 0 })
AfterCheckout(value) == Merge(value, CartUpdate(<<>>))

\* cart.checkout() of the second copy, up to its first await: with this.api
\* set the cart is posted first and cleared once the request has resolved;
\* no database is connected
CheckoutApi ==
  LET c == CartCell
  IN /\ stack = <<>>
     /\ HasCart
     /\ called.n < MaxCalls
     /\ Len(saves) < MaxSaves
     /\ ~sqlDB
     /\ IF api
        THEN /\ saves' = Append(saves, Post(cells[c].value, "checkout"))
             /\ UNCHANGED <<cells, persistedState, localStorage>>
        ELSE /\ Assigned(c, AfterCheckout(cells[c].value))
             /\ UNCHANGED saves
     /\ called' = Call("checkout", Undef)
     /\ thrown' = "none"
     /\ errors' = <<>>
     /\ events' = <<>>
     /\ emits' = <<>>
     /\ invoked' = <<>>
     /\ UNCHANGED <<sqlDB, backend, settled, bus, form, api>>
     /\ UNCHANGED <<computeds, stack, calls, log, nsubs, components,
                    lifecycles, bindings, dom, pending, heap, mounted, bound>>

(***************************************************************************)
(* the continuations of the module methods                                 *)
(***************************************************************************)
\* request i settles: onsuccess after the store has taken the request, or
\* onerror with the store as it was, and the method that awaits it goes on.
\* Requests settle in any order.
Settle(i, ok) ==
  /\ stack = <<>>
  /\ i \in 1..Len(saves)
  /\ backend' = IF ok THEN Stored(backend, saves[i]) ELSE backend
  /\ saves' = Without(saves, i)
  /\ settled' = ok
  /\ LET req == saves[i]
         raises == ok /\ EmitRaises(Registered(bus, "login"))
     IN CASE req.op = "login" ->
               \* this.emit('login', response.user), or the catch block
               /\ IF ok
                  THEN Emitted("login", req.arg)
                  ELSE emits' = <<>> /\ invoked' = <<>> /\ UNCHANGED bus
               /\ IF ok /\ ~raises
                  THEN UNCHANGED <<cells, persistedState, localStorage>>
                  ELSE Assigned(AuthCell,
                                Merge(cells[AuthCell].value, LoginFailed))
          [] req.op = "logout" ->
               \* this.emit('logout'), or the promise of logout rejects
               /\ IF ok
                  THEN Emitted("logout", Undef)
                  ELSE emits' = <<>> /\ invoked' = <<>> /\ UNCHANGED bus
               /\ UNCHANGED <<cells, persistedState, localStorage>>
          [] req.op = "checkout" /\ req.action = "post" ->
               \* cartState.set({ items: [], total: 0 }), or the promise of
               \* checkout rejects
               /\ IF ok
                  THEN Assigned(CartCell, AfterCheckout(cells[CartCell].value))
                  ELSE UNCHANGED <<cells, persistedState, localStorage>>
               /\ emits' = <<>>
               /\ invoked' = <<>>
               /\ UNCHANGED bus
          [] req.op = "submit" ->
               \* finally { formState.set({ isSubmitting: false }) }
               /\ Assigned(form.cell,
                           AfterSubmit(cells[form.cell].value, ok))
               /\ emits' = <<>>
               /\ invoked' = <<>>
               /\ UNCHANGED bus
          [] OTHER ->
               \* the cart methods have nothing left to do
               /\ emits' = <<>>
               /\ invoked' = <<>>
               /\ UNCHANGED <<bus, cells, persistedState, localStorage>>
  /\ UNCHANGED <<sqlDB, called, form, api>>
  /\ UNCHANGED <<computeds, stack, calls, log, nsubs, thrown, components,
                 lifecycles, bindings, dom, pending, errors, events, heap,
                 mounted, bound>>

\* createState(initialValue, persistKey), for the first cell of a run
CreateFirst(initialValue, persistKey) ==
  /\ cells = <<>>
  /\ CreateState(initialValue, persistKey)

\* a loop that reads the length of listeners again at every step
Relengthed(stk, c) ==
  [i \in 1..Len(stk) |->
     IF stk[i].cell = c
     THEN [stk[i] EXCEPT !.len = @ + 1,
                         !.idx = IF i = Len(stk) THEN @ + 1 ELSE @]
     ELSE IF i = Len(stk) THEN [stk[i] EXCEPT !.idx = @ + 1] ELSE stk[i]]

\* the call stack once a callback that pushed onto the listeners of cell c
\* has returned: forEach fixed its range when it was called, so no loop in
\* progress gets longer
AfterPush(stk, c) == [stk EXCEPT ![Len(stk)].idx = @ + 1]

\* the callback a subscriber subscribes
Late == Callback("fn", 2)

\* forEach calls a listener that is a user function which subscribes Late to
\* cell Current.a, unless MaxSubs callbacks are subscribed already
NotifyAdder ==
  /\ Running
  /\ Current.kind = "adder"
  /\ Current.a \in 1..Len(cells)
  /\ IF nsubs < MaxSubs
     THEN /\ cells' = [cells EXCEPT ![Current.a].listeners =
                                      Subscribed(@, Late)]
          /\ nsubs' = nsubs + 1
          /\ stack' = AfterPush(stack, Current.a)
     ELSE /\ stack' = Advanced
          /\ UNCHANGED <<cells, nsubs>>
  /\ log' = Logged
  /\ UNCHANGED <<persistedState, localStorage, computeds, calls, thrown>>
  /\ UNCHANGED uiVars
  /\ UNCHANGED <<errors, events>>

(***************************************************************************)
(* Specifications                                                          *)
(***************************************************************************)
\* the objects of user code: o = {a: {b: 1}} is object 1, o.a is object 2
CallerObjects ==
  <<Obj(<<P("a", Ref(2))>>), Obj(<<P("b", Num(1))>>)>>

Init ==
  /\ cells = <<>>
  /\ persistedState = [k \in Keys |-> Undef]
  /\ localStorage = [k \in Keys |-> NoItem]
  /\ computeds = <<>>
  /\ stack = <<>>
  /\ calls = <<>>
  /\ log = <<>>
  /\ nsubs = 0
  /\ thrown = "none"
  /\ components = [name \in Names |-> NoComponent]
  /\ bindings = <<>>
  /\ dom = [target \in Targets |-> Str("")]
  /\ pending = <<>>
  /\ errors = <<>>
  /\ lifecycles = [name \in Names |-> "none"]
  /\ events = <<>>
  /\ heap = CallerObjects
  /\ mounted = <<>>
  /\ bound = [target \in Targets |-> {}]
  /\ sqlDB = FALSE
  /\ saves = <<>>
  /\ backend = [k \in StoreKeys |-> Undef]
  /\ called = NoCall
  /\ settled = TRUE
  /\ form = NoForm
  /\ api = FALSE
  /\ bus = [event \in Events |-> NoCallbacks]
  /\ emits = <<>>
  /\ invoked = <<>>

\* the callbacks user code subscribes
UserCallbacks ==
  {Callback("fn", 1)} \cup {Callback("setter", c) : c \in 1..MaxCells}

\* cells without persistence, their subscribers and nested set calls
NextNotify ==
  \/ CreateState(Obj(<<>>), NoKey)
  \/ \E c \in 1..MaxCells, cb \in UserCallbacks : Subscribe(c, cb)
  \/ \E c \in 1..MaxCells : Set(c, SetterArg)
  \/ NotifyFn
  \/ NotifySetter
  \/ Return

SpecNotify == Init /\ [][NextNotify]_vars

\* the values of the source cell of the computed specification
SourceValues == {Obj(<<P("n", Num(n))>>) : n \in 1..3}

\* a source cell {n: 1}, cells computed from it and their subscribers
NextComputed ==
  \/ CreateOnly(Obj(<<P("n", Num(1))>>))
  \/ \E c \in 1..MaxCells, fn \in ComputeFns, m \in BOOLEAN :
       CreateComputed(c, fn, m)
  \/ \E c \in 1..MaxCells : Subscribe(c, Callback("fn", 1))
  \/ \E v \in SourceValues : Set(1, v)
  \/ NotifyFn
  \/ NotifyComputed
  \/ Return

SpecComputed == Init /\ [][NextComputed]_vars

\* cells computed from cell 1 by a compute function that throws for n = 3
NextRaise ==
  \/ CreateOnly(Obj(<<P("n", Num(1))>>))
  \/ \E m \in BOOLEAN : CreateComputed(1, "picky", m)
  \/ \E c \in 1..MaxCells : Subscribe(c, Callback("fn", 1))
  \/ \E v \in SourceValues : Set(1, v)
  \/ NotifyFn
  \/ NotifyComputed
  \/ Return

SpecRaise == Init /\ [][NextRaise]_vars

\* components rendered onto the document, cells computed from their local
\* cells, and set on the local cells
RenderValues == {Obj(<<P("n", Num(n))>>) : n \in 1..2}

NextRender ==
  \/ \E lazy \in BOOLEAN : CreateComponent("A", "view", lazy, "none")
  \/ \E o \in {Null, Obj(<<>>), Obj(<<P("loading", Str("w"))>>)} :
       Render("A", Obj(<<P("n", Num(1))>>), "#app", o)
  \/ \E c \in 1..MaxCells : CreateComputed(c, "isEven", TRUE)
  \/ \E b \in 1..MaxCells, v \in RenderValues : SetLocal(b, v)
  \/ NotifyUpdateUI
  \/ NotifyComputed
  \/ Return
  \/ \E b \in 1..MaxCells : Resume(b)

SpecRender == Init /\ [][NextRender]_vars

\* components whose template, directives or lifecycles throw for a falsy n,
\* rendered with and without fallback markup
BoundaryValues == {Obj(<<P("n", Num(n))>>) : n \in 0..1}
BoundaryOptions == {Null, Obj(<<P("fallback", Str("f"))>>)}

\* the stage that throws is the template, the directives or the lifecycle
BoundaryDefinitions ==
  {<<t, "none">> : t \in Templates} \cup {<<"view", "strict">>}

NextBoundary ==
  \/ \E def \in BoundaryDefinitions :
       CreateComponent("A", def[1], FALSE, def[2])
  \/ \E v \in BoundaryValues, o \in BoundaryOptions :
       Render("A", v, "#app", o)
  \/ Subscribe(1, Callback("fn", 1))
  \/ \E b \in 1..MaxCells, v \in BoundaryValues : SetLocal(b, v)
  \/ NotifyUpdateUI
  \/ NotifyFn
  \/ Return

SpecBoundary == Init /\ [][NextBoundary]_vars

\* a component with lifecycles, with and without a lazy loader, and sets on
\* the local cells that change the value and that do not
NextCycle ==
  \/ \E lazy \in BOOLEAN : CreateComponent("A", "view", lazy, "strict")
  \/ \E o \in {Null, Obj(<<>>)} :
       Render("A", Obj(<<P("n", Num(1))>>), "#app", o)
  \/ \E b \in 1..MaxCells, v \in RenderValues : SetLocal(b, v)
  \/ NotifyUpdateUI
  \/ Return
  \/ \E b \in 1..MaxCells : Resume(b)

SpecCycle == Init /\ [][NextCycle]_vars

\* cells created from an object user code goes on changing
NextCopy ==
  \/ \E key \in {NoKey, "k"} : CreateState(Ref(1), key)
  \/ \E id \in 1..2 : Mutate(id, "b", Num(7))
  \/ \E c \in 1..MaxCells : Set(c, Obj(<<P("x", Num(1))>>))
  \/ Return

SpecCopy == Init /\ [][NextCopy]_vars

\* the initial values and the arguments of set of the persistence
\* specification; an initialValue of undefined is a call without one
PersistInits == {Undef, Obj(<<P("y", Num(5))>>)}
PersistArgs == {Obj(<<P("x", Num(1))>>), Num(0)}

\* the subscribers of the first cell: an observer, a callback that sets the
\* first cell again and a callback that sets the second cell
PersistCallbacks ==
  {Callback("fn", 1), Callback("setter", 1), Callback("setter", 2)}

\* cells bound to the persistence key "k"; the first of them has subscribers
NextPersist ==
  \/ \E v \in PersistInits : CreateState(v, "k")
  \/ \E cb \in PersistCallbacks : Subscribe(1, cb)
  \/ \E c \in 1..MaxCells, v \in PersistArgs : Set(c, v)
  \/ NotifyFn
  \/ NotifySetter
  \/ Return

SpecPersist == Init /\ [][NextPersist]_vars

\* the initial values and the arguments of set of the merge specification
MergeInits ==
  {Obj(<<P("a", Num(1)), P("b", Num(2))>>),
   Obj(<<P("a", Obj(<<P("b", Num(1))>>))>>),
   Num(0)}
MergeArgs ==
  {Obj(<<P("b", Num(3))>>), Obj(<<P("a", Obj(<<P("c", Num(1))>>))>>),
   Num(5), Str("s"), Str(""), Bool(FALSE),
   Arr(<<Num(7)>>), Arr(<<>>), Null, Undef}

\* one cell without persistence and without subscribers: set as a function
\* of the current value and the argument
NextMerge ==
  \/ \E v \in MergeInits : CreateOnly(v)
  \/ \E v \in MergeArgs : Set(1, v)
  \/ Return

SpecMerge == Init /\ [][NextMerge]_vars

\* definitions with and without a name and a template, and render onto an
\* element that exists and onto one that does not
NextDefine ==
  \/ \E name \in {"", "A"}, t \in {"missing", "view"}, h \in Lifecycles :
       CreateComponent(name, t, FALSE, h)
  \/ \E target \in {"#app", "#none"} :
       Render("A", Obj(<<P("n", Num(1))>>), target, Null)
  \/ \E b \in 1..MaxCells, v \in RenderValues : SetLocal(b, v)
  \/ NotifyUpdateUI
  \/ Return

SpecDefine == Init /\ [][NextDefine]_vars

\* cells created with a key whose stored text may have become unreadable
NextLoad ==
  \/ \E v \in PersistInits : CreateState(v, "k")
  \/ Corrupt("k")
  \/ \E c \in 1..MaxCells, v \in PersistArgs : Set(c, v)
  \/ Return

SpecLoad == Init /\ [][NextLoad]_vars

\* the keys user code passes to get: none, a present one, an absent one
GetKeys == {Undef, Str("a"), Str("z")}

\* one cell created from a record, a scalar or null, set and read
NextGet ==
  \/ \E v \in MergeInits \cup {Null} : CreateOnly(v)
  \/ \E v \in MergeArgs : Set(1, v)
  \/ \E key \in GetKeys : GetCall(1, key)
  \/ Return

SpecGet == Init /\ [][NextGet]_vars

\* a cell that is rendered, computed from, read and set, with a template
\* that throws for a falsy n, a computeFn that throws for n = 3 and a
\* subscriber that throws
GrowValues == {Obj(<<P("n", Num(n))>>) : n \in {0, 3}}

NextGrow ==
  \/ CreateComponent("A", "fragile", FALSE, "none")
  \/ Render("A", Obj(<<P("n", Num(1))>>), "#app", Null)
  \/ CreateComputed(1, "picky", FALSE)
  \/ \E kind \in {"fn", "raiser"} : Subscribe(1, Callback(kind, 1))
  \/ \E v \in GrowValues : Set(1, v)
  \/ GetCall(1, Str("n"))
  \/ NotifyUpdateUI
  \/ NotifyComputed
  \/ NotifyFn
  \/ NotifyRaiser
  \/ Return

SpecGrow == Init /\ [][NextGrow]_vars

\* the items user code adds: two ids, and an item that repeats id 1 with
\* another price and a quantity of its own
CartItems ==
  {Obj(<<P("id", Num(1)), P("price", Num(10))>>),
   Obj(<<P("id", Num(2)), P("price", Num(3))>>),
   Obj(<<P("id", Num(1)), P("price", Num(7)), P("quantity", Num(5))>>)}
CartIds == {Num(1), Num(2)}

\* a cart, with and without a connected database
NextCart ==
  \/ CreateCart
  \/ InitSQL
  \/ \E item \in CartItems : AddItem(item)
  \/ \E id \in CartIds : RemoveItem(id)
  \/ Checkout
  \/ \E i \in 1..MaxSaves, ok \in BOOLEAN : Settle(i, ok)

SpecCart == Init /\ [][NextCart]_vars

\* the callbacks user code registers on the bus
BusCallbacks ==
  {Callback("fn", 1), Callback("fn", 2), Callback("off", 1)}
Payloads == {Num(1), Num(2)}

\* the event bus on its own
NextBus ==
  \/ \E event \in Events, cb \in BusCallbacks : On(event, cb)
  \/ \E event \in Events, cb \in BusCallbacks : Off(event, cb)
  \/ \E event \in Events, payload \in Payloads : Emit(event, payload)

SpecBus == Init /\ [][NextBus]_vars

\* a session, with and without a connected database, and a callback on
\* each of its events
NextAuth ==
  \/ CreateAuth
  \/ InitSQL
  \/ \E event \in Events : On(event, Callback("fn", 1))
  \/ \E email \in Emails : Login(email)
  \/ Logout
  \/ \E i \in 1..MaxSaves, ok \in BOOLEAN : Settle(i, ok)

SpecAuth == Init /\ [][NextAuth]_vars

\* a component with lifecycles whose template throws, or does not, for a
\* falsy n, mounted with and without a falsy n and set afterwards
NextMount ==
  \/ \E t \in {"view", "fragile"} : CreateComponent("A", t, FALSE, "strict")
  \/ \E v \in BoundaryValues : Render("A", v, "#app", Null)
  \/ \E b \in 1..MaxCells, v \in BoundaryValues : SetLocal(b, v)
  \/ NotifyUpdateUI
  \/ Return

SpecMount == Init /\ [][NextMount]_vars

\* a component whose elements carry data-on attributes, mounted and set
NextBind ==
  \/ \E t \in {"view", "fragile"} : CreateComponent("A", t, FALSE, "none")
  \/ \E v \in BoundaryValues : Render("A", v, "#app", Null)
  \/ \E b \in 1..MaxCells, v \in BoundaryValues : SetLocal(b, v)
  \/ NotifyUpdateUI
  \/ Return

SpecBind == Init /\ [][NextBind]_vars

\* forms over the fields name and code: without validators, with a required
\* name, with a name of at least two characters, and with both fields
\* validated
FormValidators ==
  {<<>>,
   <<Validator("name", Rules(TRUE, 0, "none"))>>,
   <<Validator("name", Rules(FALSE, 2, "none"))>>,
   <<Validator("name", Rules(TRUE, 2, "none")),
     Validator("code", Rules(FALSE, 0, "digits"))>>}
FormInitials == {Obj(<<>>), Obj(<<P("name", Str("abc")), P("code", Str("12"))>>)}
FormInputs == {Str(""), Str("a"), Str("12")}

NextForm ==
  \/ \E i \in FormInitials, v \in FormValidators : CreateForm(i, v)
  \/ \E f \in {"name", "code"}, v \in FormInputs : Input(f, v)
  \/ Submit
  \/ \E i \in 1..MaxSaves, ok \in BOOLEAN : Settle(i, ok)

SpecForm == Init /\ [][NextForm]_vars

\* a persisted cell {n: 1} whose subscribers observe, call set again or
\* throw, and a cell computed from it by a computeFn that throws for n = 3
ThrowValues == {Obj(<<P("n", Num(n))>>) : n \in {2, 3}}
ThrowCallbacks ==
  {Callback("fn", 1), Callback("fn", 2), Callback("raiser", 1),
   Callback("setter", 1)}

NextThrow ==
  \/ CreateFirst(Obj(<<P("n", Num(1))>>), "k")
  \/ CreateComputed(1, "picky", FALSE)
  \/ \E cb \in ThrowCallbacks : Subscribe(1, cb)
  \/ \E v \in ThrowValues : Set(1, v)
  \/ NotifyFn
  \/ NotifySetter
  \/ NotifyComputed
  \/ NotifyRaiser
  \/ Return

SpecThrow == Init /\ [][NextThrow]_vars

\* one cell whose subscribers observe or call set({x: 1}) on the cell they
\* are subscribed to; user code sets x to 0 or y to 2
ReenterArgs == {Obj(<<P("x", Num(0))>>), Obj(<<P("y", Num(2))>>)}
ReenterCallbacks ==
  {Callback("fn", 1), Callback("fn", 2), Callback("setter", 1)}

NextReenter ==
  \/ CreateOnly(Obj(<<>>))
  \/ \E cb \in ReenterCallbacks : Subscribe(1, cb)
  \/ \E v \in ReenterArgs : Set(1, v)
  \/ NotifyFn
  \/ NotifySetter
  \/ Return

SpecReenter == Init /\ [][NextReenter]_vars

\* one cell whose subscribers observe, subscribe another callback to the
\* cell, or call set on it
LateCallbacks ==
  {Callback("fn", 1), Callback("adder", 1), Callback("setter", 1)}

NextLate ==
  \/ CreateOnly(Obj(<<>>))
  \/ \E cb \in LateCallbacks : Subscribe(1, cb)
  \/ Set(1, SetterArg)
  \/ NotifyFn
  \/ NotifyAdder
  \/ NotifySetter
  \/ Return

SpecLate == Init /\ [][NextLate]_vars

\* two cells bound to the key "k", created with or without an initial
\* value, and observers on the first of them
SharedArgs == {Obj(<<P("x", Num(1))>>), Obj(<<P("y", Num(2))>>), Num(0)}

NextShared ==
  \/ \E v \in PersistInits : CreateState(v, "k")
  \/ Subscribe(1, Callback("fn", 1))
  \/ \E c \in 1..MaxCells, v \in SharedArgs : Set(c, v)
  \/ NotifyFn
  \/ Return

SpecShared == Init /\ [][NextShared]_vars

\* the components A and B, rendered one after the other on the same mount
\* point, and set on their local cells
RemountValues == {Obj(<<P("n", Num(n))>>) : n \in 1..3}

NextRemount ==
  \/ \E name \in Names : CreateComponent(name, "view", FALSE, "none")
  \/ \E name \in Names, v \in RemountValues : Render(name, v, "#app", Null)
  \/ \E b \in 1..MaxCells, v \in RemountValues : SetLocal(b, v)
  \/ NotifyUpdateUI
  \/ Return

SpecRemount == Init /\ [][NextRemount]_vars

\* the cart of the second copy with initApi and no database: items are
\* added and removed and the cart is checked out while requests are pending
NextApiCart ==
  \/ CreateCart
  \/ InitApi
  \/ \E item \in CartItems : AddItem(item)
  \/ \E id \in CartIds : RemoveItem(id)
  \/ CheckoutApi
  \/ \E i \in 1..MaxSaves, ok \in BOOLEAN : Settle(i, ok)

SpecApiCart == Init /\ [][NextApiCart]_vars

(***************************************************************************)
(* Properties                                                              *)
(***************************************************************************)
IsRecord(v) == v.t = "object"
IsScalar(v) == v.t \in {"number", "string", "boolean"}

\* user code calls set on cell c with argument p in this step
SetCalled(c, p) ==
  /\ stack = <<>> /\ stack' # <<>>
  /\ stack'[1].cell = c
  /\ calls'[1].arg = p

\* C1: set(p) with a record p on a cell that holds a record is a shallow
\* merge: every top-level key of p holds exactly p[k] afterwards (a nested
\* record is overwritten whole), every other key keeps its previous value,
\* and there are no other keys.
C1_ShallowMerge ==
  [][\A p \in MergeArgs :
       (SetCalled(1, p) /\ IsRecord(cells[1].value) /\ IsRecord(p)) =>
         LET old == cells[1].value.kv
             new == cells'[1].value
         IN /\ IsRecord(new)
            /\ KeysOf(new.kv) = KeysOf(old) \cup KeysOf(p.kv)
            /\ \A k \in KeysOf(p.kv) : Lookup(new.kv, k) = Lookup(p.kv, k)
            /\ \A k \in KeysOf(old) \ KeysOf(p.kv) :
                 Lookup(new.kv, k) = Lookup(old, k)]_vars

\* the cell holds {a: {c: 1}, b: 3}: key a was overwritten whole by a nested
\* record while key b, set before, survived
C1_Witness ==
  /\ Len(cells) = 1
  /\ IsRecord(cells[1].value)
  /\ KeysOf(cells[1].value.kv) = {"a", "b"}
  /\ Lookup(cells[1].value.kv, "a") = Obj(<<P("c", Num(1))>>)
  /\ Lookup(cells[1].value.kv, "b") = Num(3)

\* C2: set(v) with a scalar v (number, string, boolean) replaces the value
\* of the cell, whatever it was: get() is exactly v.
C2_ScalarReplaces ==
  [][\A p \in MergeArgs :
       (SetCalled(1, p) /\ IsScalar(p)) => cells'[1].value = p]_vars

\* set(5) has been called on a cell that held a record with keys, and the
\* cell holds 5
C2_Witness ==
  /\ stack # <<>>
  /\ IsRecord(calls[1].before) /\ calls[1].before.kv # <<>>
  /\ calls[1].arg = Num(5)
  /\ cells[1].value = Num(5)

\* C3 as claimed: set with an array or null raises nothing and replaces the
\* value of the cell by the argument.
C3_NonRecordReplaces ==
  [][\A p \in MergeArgs :
       (SetCalled(1, p) /\ p.t \in {"array", "null"}) =>
         cells'[1].value = p /\ thrown' = "none"]_vars

\* structural (deep) equality of two values: the same kind of value, and for
\* records the same keys with deep-equal values whatever the key order
RECURSIVE DeepEqual(_, _)
DeepEqual(v, w) ==
  IF v.t # w.t THEN FALSE
  ELSE CASE v.t = "object" ->
              /\ KeysOf(v.kv) = KeysOf(w.kv)
              /\ \A k \in KeysOf(v.kv) :
                   DeepEqual(Lookup(v.kv, k), Lookup(w.kv, k))
         [] v.t = "array" ->
              /\ Len(v.el) = Len(w.el)
              /\ \A i \in 1..Len(v.el) : DeepEqual(v.el[i], w.el[i])
         [] OTHER -> v = w

\* this step invokes the subscriber of the memoized computed cell d
ComputedNotified(d) ==
  /\ Running
  /\ Current = Callback("computed", d)
  /\ computeds[d].memoize

\* C5 as claimed: when the subscriber of a memoized computed cell recomputes
\* a result deep-equal to the cached one, no set is called on the computed
\* cell (none of its subscribers runs) and its value and cache stay; when
\* the result differs, set is called once on the computed cell, which
\* notifies every subscriber it has.
C5_MemoizedSkipsDeepEqual ==
  [][\A d \in 1..Len(computeds) :
       ComputedNotified(d) =>
         LET c == computeds[d].computed
             newValue == ComputeFn(computeds[d].computeFn,
                                   cells[computeds[d].state].value)
         IN IF DeepEqual(newValue, computeds[d].cache)
            THEN /\ calls' = calls
                 /\ cells'[c].value = cells[c].value
                 /\ computeds'[d].cache = computeds[d].cache
            ELSE /\ Len(calls') = Len(calls) + 1
                 /\ calls'[Len(calls')].cell = c
                 /\ calls'[Len(calls')].subs = Len(cells[c].listeners)
                 /\ Top(stack').call = Len(calls')]_vars

\* C6 as claimed: whenever no call is running, the value of every computed
\* cell is computeFn of the current value of its source cell.
C6_ComputedIsFunctionOfSource ==
  stack = <<>> =>
    \A d \in 1..Len(computeds) :
      DeepEqual(cells[computeds[d].computed].value,
                ComputeFn(computeds[d].computeFn,
                          cells[computeds[d].state].value))

\* the cells bound to persistence key k
BoundTo(k) == {c \in 1..Len(cells) : cells[c].key = k}

\* user code calls createState with a persistence key in this step: a cell
\* is added, or the call raises
CreateCalled ==
  /\ stack = <<>> /\ stack' = <<>>
  /\ \/ Len(cells') = Len(cells) + 1
     \/ thrown = "none" /\ thrown' # "none"

\* C7 as claimed: a new cell created with the key of an existing cell starts
\* with the value that cell holds (its last post-merge value), whatever the
\* initialValue of the new cell.
C7_ReloadsLastValue ==
  [][(CreateCalled /\ BoundTo("k") = {1}) =>
       /\ Len(cells') = Len(cells) + 1
       /\ DeepEqual(cells'[Len(cells')].value, cells[1].value)]_vars

\* what is saved under key k is the value v
StoredIs(k, v) ==
  /\ persistedState[k] = v
  /\ localStorage[k] = ToText(Stringify(v))

\* C8 as claimed: while a set on a cell with a persistence key runs its
\* subscribers, and when it returns, what is saved under the key is the
\* current full value of the cell.
C8_StoredIsValueWhileNotifying ==
  \A i \in 1..Len(stack) :
    cells[stack[i].cell].key # NoKey =>
      StoredIs(cells[stack[i].cell].key, cells[stack[i].cell].value)

\* C8 amended: set saves the full post-merge value before it invokes its
\* first subscriber; while its subscribers run and when it returns, what is
\* saved under the key is the current full value of the cell when no other
\* cell is bound to the same key, and otherwise the current full value of
\* one of the cells bound to the key.
C8_StoredIsLastSavedValue ==
  /\ \A k \in Keys :
       BoundTo(k) # {} => \E c \in BoundTo(k) : StoredIs(k, cells[c].value)
  /\ \A i \in 1..Len(stack) :
       LET c == stack[i].cell
       IN cells[c].key # NoKey =>
            /\ (i = Len(stack) /\ stack[i].idx = 1) =>
                 StoredIs(cells[c].key, cells[c].value)
            /\ BoundTo(cells[c].key) = {c} =>
                 StoredIs(cells[c].key, cells[c].value)

\* a set on a persisted cell with two subscribers has invoked the first,
\* which called set on the same cell again, and is about to invoke the
\* second: the value saved is the value after the nested set
C8_Witness ==
  /\ BoundTo("k") = {1}
  /\ Len(stack) = 1
  /\ stack[1].idx = 2 /\ stack[1].len >= 2
  /\ cells[stack[1].cell].key = "k"
  /\ Len(calls) = 2 /\ calls[2].done
  /\ cells[stack[1].cell].value # Merge(calls[1].before, calls[1].arg)
  /\ StoredIs("k", cells[stack[1].cell].value)

\* the invocations made by the loop of set call k, in the order they happened
EntriesOf(k) == SelectSeq(log, LAMBDA e : e.call = k)
\* the loop of set call k has visited every listener and the last listener
\* has returned: set call k has returned or is about to
Finished(k) ==
  \/ calls[k].done
  \/ stack # <<>> /\ Top(stack).call = k /\ Top(stack).idx > Top(stack).len

\* C4: one set call invokes the subscribers of its cell in subscription
\* order, once per subscription (a callback subscribed twice is invoked at
\* both of its positions), each with no arguments.
C4_NotifyInSubscriptionOrder ==
  \A k \in 1..Len(calls) :
    LET es == EntriesOf(k)
        ls == cells[calls[k].cell].listeners
    IN /\ Len(es) <= calls[k].subs
       /\ \A i \in 1..Len(es) :
            es[i].pos = i /\ es[i].cb = ls[i] /\ es[i].nargs = 0
       /\ Finished(k) => Len(es) = calls[k].subs

\* a set call has finished on a cell where one callback is subscribed first
\* and third and another callback second, and all three were invoked
C4_Witness ==
  \E k \in 1..Len(calls) :
    LET ls == cells[calls[k].cell].listeners
    IN /\ Finished(k)
       /\ calls[k].subs = 3
       /\ ls[1] = ls[3] /\ ls[1] # ls[2]
       /\ Len(EntriesOf(k)) = 3

\* the invocations of set call k that happened strictly between the log
\* indices i and j
EntriesBetween(k, i, j) ==
  SelectSeq(SubSeq(log, i + 1, j - 1), LAMBDA e : e.call = k)

\* C10: a set called by a subscriber has notified every one of its own
\* subscribers before the outer set invokes its next subscriber, and the
\* outer set still invokes all of its subscribers.
C10_NestedSetDepthFirst ==
  /\ \A i \in 1..Len(log) : \A j \in (i + 1)..Len(log) :
       log[i].call = log[j].call =>
         \A k \in 1..Len(calls) :
           calls[k].by = i =>
             Len(EntriesBetween(k, i, j)) = calls[k].subs
  /\ \A k \in 1..Len(calls) :
       (calls[k].by # 0 /\ Finished(log[calls[k].by].call)) =>
         /\ Finished(k)
         /\ Len(EntriesOf(log[calls[k].by].call)) =
              calls[log[calls[k].by].call].subs

\* a subscriber has called set on a cell that has subscribers of its own,
\* and the outer set has since invoked its next subscriber
C10_Witness ==
  \E i \in 1..Len(log) : \E j \in (i + 1)..Len(log) :
    /\ log[i].call = log[j].call
    /\ \E k \in 1..Len(calls) : calls[k].by = i /\ calls[k].subs >= 1

(***************************************************************************)
(* C9: what has happened by the time a top-level set returns               *)
(***************************************************************************)
\* the top-level set has visited every listener and is about to return
Returning == Len(stack) = 1 /\ Top(stack).idx > Top(stack).len

\* set was called on cell c in the cascade of the current top-level set
Notified(c) == \E k \in 1..Len(calls) : calls[k].cell = c

\* every computed cell whose source was notified holds what its computeFn
\* returns for the source's current value
DerivedRecomputed ==
  \A d \in 1..Len(computeds) :
    Notified(computeds[d].state) =>
      cells[computeds[d].computed].value =
        ComputeFn(computeds[d].computeFn, cells[computeds[d].state].value)

\* the element of binding b shows the template output for the current value
\* of its local cell and no updateUI call of b is waiting
Rewritten(b) ==
  /\ dom[bindings[b].target] =
       Html(bindings[b].name, cells[bindings[b].state].value)
  /\ pending[b] = 0

\* C9 as claimed: when a top-level set returns, every computed cell of a
\* notified cell has been recomputed and every render binding subscribed to
\* a notified cell has finished rewriting its element: nothing is deferred.
C9_CascadeSynchronous ==
  Returning =>
    /\ DerivedRecomputed
    /\ \A b \in 1..Len(bindings) :
         Notified(bindings[b].state) => Rewritten(b)

\* C9 amended: when a top-level set returns, every computed cell of a
\* notified cell has been recomputed, and every render binding subscribed to
\* a notified cell has rewritten its element, unless it was rendered with a
\* suspense option and its component has a lazy loader: then its element
\* shows the loading markup and the run of updateUI is still waiting, to
\* write the template output in a later turn.
C9_SynchronousUpToAwait ==
  Returning =>
    /\ DerivedRecomputed
    /\ \A b \in 1..Len(bindings) :
         Notified(bindings[b].state) =>
           IF Truthy(bindings[b].suspense) /\ bindings[b].component.lazy
           THEN /\ dom[bindings[b].target] = LoadingMarkup(b)
                /\ pending[b] >= 1
           ELSE dom[bindings[b].target] =
                  Html(bindings[b].name, cells[bindings[b].state].value)

\* a top-level set that changed the local cell of a binding rendered with
\* suspense and a lazy loader is about to return: the computed cell of the
\* local cell was set in the cascade, the element shows the loading markup
\* and the run of updateUI is waiting
C9_Witness ==
  /\ Returning
  /\ Len(bindings) = 1
  /\ Truthy(bindings[1].suspense) /\ bindings[1].component.lazy
  /\ calls[1].cell = bindings[1].state
  /\ calls[1].before # cells[bindings[1].state].value
  /\ Len(calls) = 2
  /\ computeds[1].state = bindings[1].state
  /\ calls[2].cell = computeds[1].computed
  /\ pending[1] = 1
  /\ dom["#app"] = Str("Loading...")

(***************************************************************************)
(* C11: a computeFn that throws                                            *)
(***************************************************************************)
\* this step calls a subscriber of createComputed whose computeFn throws
ComputeRaises ==
  /\ Running
  /\ Current.kind = "computed"
  /\ Raises(computeds[Current.a].computeFn,
            cells[computeds[Current.a].state].value)

\* the subscriptions createComputed holds on cell c
ComputedListeners(c) == SelectSeq(c.listeners, LAMBDA l : l.kind = "computed")

\* C11: when computeFn throws while a computed cell recomputes during a set
\* on its source, the exception leaves that set and every set below it and
\* reaches the caller: nothing catches it, nothing is logged and no later
\* subscriber runs.  When computeFn throws for the current value of the
\* source, no call of createComputed adds a computed cell or a subscription
\* on the source, and the call raises.
C11_ComputeErrorPropagates ==
  [][/\ ComputeRaises =>
          /\ stack' = <<>>
          /\ thrown' = "Error"
          /\ errors' = errors
          /\ cells' = cells
     /\ (stack = <<>> /\ cells # <<>> /\ Raises("picky", cells[1].value)) =>
          /\ computeds' = computeds
          /\ Len(cells') = Len(cells)
          /\ ComputedListeners(cells'[1]) = ComputedListeners(cells[1])
          /\ (stack' = <<>> /\ cells' = cells) => thrown' = "Error"]_vars

\* a set on the source of a computed cell has raised out of its subscriber:
\* the source holds the value computeFn throws for, the caller has the
\* exception and no call is in progress
C11_Witness ==
  /\ stack = <<>>
  /\ thrown = "Error"
  /\ Len(computeds) >= 1
  /\ cells[1].value = Obj(<<P("n", Num(3))>>)
  /\ Len(cells[1].listeners) >= 2

(***************************************************************************)
(* C12: errors of a re-render stay inside the render binding               *)
(***************************************************************************)
\* this step calls the updateUI of binding b, which runs to its end
UpdateUIRuns(b) ==
  /\ Running
  /\ Current = Callback("updateUI", b)
  /\ ~(Truthy(bindings[b].suspense) /\ bindings[b].component.lazy)

\* C12: when the template, the directives or the update lifecycle throw in a
\* re-render that a set on the local cell triggered, the caller of set gets
\* no exception, forEach goes on to the subscribers after the binding, and
\* the binding stays subscribed: every later call of its updateUI calls the
\* template again.
C12_RenderErrorsContained ==
  [][\A b \in 1..Len(bindings) :
       /\ Callback("updateUI", b) \in
            {cells'[bindings[b].state].listeners[i] :
               i \in 1..Len(cells'[bindings[b].state].listeners)}
       /\ UpdateUIRuns(b) =>
            /\ thrown' = "none"
            /\ stack' = [stack EXCEPT ![Len(stack)].idx = @ + 1]
            /\ cells' = cells
            /\ Len(events') > Len(events)
            /\ events'[Len(events) + 1] = Event(b, "template")]_vars

\* a set on the local cell of a binding is about to return: the template of
\* the binding threw, the error was logged, the subscriber after the binding
\* was invoked and the caller gets no exception
C12_Witness ==
  /\ Returning
  /\ Len(bindings) = 1
  /\ bindings[1].component.template = "fragile"
  /\ ~Truthy(GetProp(cells[bindings[1].state].value, "n"))
  /\ errors = <<RenderError>>
  /\ events = <<Event(1, "template")>>
  /\ Len(log) = 2
  /\ log[1].cb = Callback("updateUI", 1)
  /\ log[2].cb = Callback("fn", 1)
  /\ thrown = "none"

(***************************************************************************)
(* C13: fallback markup                                                    *)
(***************************************************************************)
\* this step is the call of render that creates binding b
Mounts(b) == Len(bindings') = Len(bindings) + 1 /\ b = Len(bindings')

\* C13 as claimed: whenever the template or the directives throw for a
\* binding, on its initial mount or on a later update, the element shows the
\* fallback markup of the binding if it has one; if it has none, the error
\* is logged and the element is left with what the pass wrote.
C13_FallbackReplacesContent ==
  [][\A b \in 1..Len(bindings') :
       LET bd == bindings'[b]
           value == cells'[bd.state].value
           fallback == GetProp(bd.suspense, "fallback")
       IN ((Mounts(b) \/ UpdateUIRuns(b))
           /\ (TemplateRaises(bd.component, value)
               \/ DirectiveRaises(bd.component, value))) =>
            /\ errors' # <<>>
            /\ IF Truthy(fallback)
               THEN dom'[bd.target] = fallback
               ELSE dom'[bd.target] =
                      IF TemplateRaises(bd.component, value)
                      THEN dom[bd.target]
                      ELSE Html(bd.name, value)]_vars

(***************************************************************************)
(* C14: what the mount element shows                                       *)
(***************************************************************************)
\* the top-level set on the local cell of binding b returns in this step
SetReturns(b) ==
  /\ Len(stack) = 1
  /\ stack' = <<>>
  /\ stack[1].cell = bindings[b].state

\* the element of binding b shows the template output for the current value
Shows(d, b) == d[bindings[b].target] = Html(bindings[b].name, Local(b))

\* setup is called in the call of render that creates the binding, before
\* the template, and in no other step
SetupOnce ==
  \A b \in 1..Len(bindings') :
    IF Mounts(b)
    THEN /\ events'[1] = Event(b, "setup")
         /\ events'[2] = Event(b, "template")
         /\ \A i \in 2..Len(events') : events'[i] # Event(b, "setup")
         /\ dom'[bindings'[b].target] =
              Html(bindings'[b].name, cells'[bindings'[b].state].value)
    ELSE \A i \in 1..Len(events') : events'[i] # Event(b, "setup")

Count(seq, x) == Cardinality({i \in 1..Len(seq) : seq[i] = x})

\* the template and the update lifecycle were each called once for b
OneCycle(evs, b) ==
  /\ Count(evs, Event(b, "template")) = 1
  /\ Count(evs, Event(b, "onUpdate")) = 1

\* C15: a binding holds one subscription, on its local cell, and every set
\* on the local cell, whether or not it changes the value, calls the
\* updateUI of the binding once; that call makes one template call and one
\* call of the update lifecycle (for a pass in which nothing throws), at
\* once or, for a binding whose updateUI waits for a lazy loader, once for
\* each waiting call when it continues.
C15_OneCyclePerSet ==
  [][\A b \in 1..Len(bindings) :
       /\ \A c \in 1..Len(cells) :
            Count(cells[c].listeners, Callback("updateUI", b)) =
              IF c = bindings[b].state THEN 1 ELSE 0
       /\ SetReturns(b) =>
            /\ Len(log) = 1
            /\ log[1].cb = Callback("updateUI", b)
            /\ IF Suspends(b)
               THEN events = <<>> /\ pending[b] >= 1
               ELSE OneCycle(events, b)
       /\ (Running /\ Current = Callback("updateUI", b) /\ Suspends(b)) =>
            pending'[b] = pending[b] + 1
       /\ pending'[b] < pending[b] =>
            /\ pending'[b] = pending[b] - 1
            /\ OneCycle(events', b)]_vars

\* a set whose argument equals the current value of the local cell of a
\* binding is about to return: the template and the update lifecycle were
\* called once
C15_Witness ==
  /\ Returning
  /\ Len(bindings) = 1
  /\ ~Suspends(1)
  /\ calls[1].cell = bindings[1].state
  /\ calls[1].arg = calls[1].before
  /\ calls[1].before = Local(1)
  /\ events = <<Event(1, "template"), Event(1, "directives"),
                Event(1, "bind"), Event(1, "onUpdate")>>

(***************************************************************************)
(* C16: the cell holds a copy of initialValue                              *)
(***************************************************************************)
\* this step is a createState(o, key) that finds no stored value
CreatesFromInitial ==
  /\ Len(cells') = Len(cells) + 1
  /\ cells'[Len(cells')].key # NoKey =>
       localStorage[cells'[Len(cells')].key] = NoItem

\* C16: a cell created without a stored value starts with a structural copy
\* of initialValue that shares no object with it, and no later assignment
\* of user code to initialValue or to an object nested in it changes what
\* get() returns on any cell.
C16_InitialValueCopied ==
  [][/\ CreatesFromInitial =>
          cells'[Len(cells')].value = Deref(Ref(1), heap)
     /\ heap' # heap =>
          \A c \in 1..Len(cells) :
            Deref(cells'[c].value, heap') = Deref(cells[c].value, heap)]_vars

\* user code has changed the object nested in initialValue after a cell was
\* created from it, and the cell still holds the value of before
C16_Witness ==
  /\ cells # <<>>
  /\ cells[1].value = Obj(<<P("a", Obj(<<P("b", Num(1))>>))>>)
  /\ heap[2] = Obj(<<P("b", Num(7))>>)

(***************************************************************************)
(* C17: the value at rest                                                  *)
(***************************************************************************)
\* C17 as claimed: whenever no call is in progress, no cell holds undefined.
C17_NeverUndefinedAtRest ==
  stack = <<>> => \A c \in 1..Len(cells) : cells[c].value # Undef

(***************************************************************************)
(* C18: get                                                                *)
(***************************************************************************)
\* C18 as claimed: get with no key returns the whole value, get(k) returns
\* the field k of the value, undefined when there is no such field, and no
\* call of get raises, whatever the cell holds.
C18_GetNeverRaises ==
  /\ thrown # "TypeError"
  /\ \A c \in 1..Len(cells) :
       /\ GetKey(c, Undef) = cells[c].value
       /\ \A k \in {"a", "z"} :
            GetKey(c, Str(k)) =
              IF HasKey(OwnProps(cells[c].value), k)
              THEN Lookup(OwnProps(cells[c].value), k)
              ELSE Undef

(***************************************************************************)
(* C19: a stored text that cannot be read                                  *)
(***************************************************************************)
\* C19 as claimed: no createState raises because the stored text of its key
\* cannot be parsed; the cell is created with a copy of initialValue, as if
\* nothing were stored.
C19_LoadFailureIsColdStart ==
  [][/\ thrown' # "SyntaxError"
     /\ (localStorage["k"] = NotJSON /\ Len(cells') = Len(cells) + 1) =>
          cells'[Len(cells')].value \in
            {Clone(InitialOrDefault(v)) : v \in PersistInits}]_vars

(***************************************************************************)
(* C20: definition errors                                                  *)
(***************************************************************************)
\* C20: a createComponent without a name or without a template function
\* logs an error, raises nothing and leaves both registries as they are, so
\* the registry never holds a definition without a template function; a
\* render of an unregistered name or onto a missing element logs an error,
\* raises nothing, creates no cell and no binding, calls no setup and
\* subscribes nothing.
C20_DefinitionErrorsAbort ==
  [][/\ \A name \in Names :
          components'[name].defined => components'[name].template \in Templates
     /\ errors' = <<InvalidDefinition>> =>
          /\ components' = components
          /\ lifecycles' = lifecycles
          /\ thrown' = "none"
     /\ (stack = <<>> /\ ~components["A"].defined) =>
          /\ cells' = cells
          /\ bindings' = bindings
          /\ nsubs' = nsubs
          /\ events' = <<>>
          /\ thrown' = "none"
     /\ errors' \in {<<ComponentNotFound>>, <<TargetNotFound>>} =>
          /\ cells' = cells
          /\ bindings' = bindings
          /\ nsubs' = nsubs
          /\ events' = <<>>
          /\ thrown' = "none"
     /\ Len(bindings') > Len(bindings) =>
          /\ bindings'[Len(bindings')].target \in Targets
          /\ components[bindings'[Len(bindings')].name].defined]_vars

\* render onto a missing element has logged its error for a registered
\* component, after a definition without a template was refused: there is
\* no cell and no binding
C20_Witness ==
  /\ errors = <<TargetNotFound>>
  /\ components["A"].defined
  /\ lifecycles["A"] = "none"
  /\ cells = <<>>
  /\ bindings = <<>>
  /\ events = <<>>
  /\ thrown = "none"

(***************************************************************************)
(* C21: subscriptions are never removed                                    *)
(***************************************************************************)
\* the listeners of cell c before the step are the first listeners of cell
\* c after it, in the same order
Keeps(c) ==
  /\ c <= Len(cells')
  /\ Len(cells'[c].listeners) >= Len(cells[c].listeners)
  /\ SubSeq(cells'[c].listeners, 1, Len(cells[c].listeners))
       = cells[c].listeners

\* C21: a cell's subscriber list only grows: no step (get, set, a
\* subscriber that throws, a render or compute error, a second render onto
\* the same mount point) removes or reorders a subscription
C21_SubscriptionsOnlyGrow ==
  [][\A c \in 1..Len(cells) : Keeps(c)]_vars

\* two renders share the mount point, a subscriber of cell 1 has thrown out
\* of a set, and both subscribers of cell 1 are still in place
C21_Witness ==
  /\ Len(bindings) = 2
  /\ bindings[1].target = bindings[2].target
  /\ stack = <<>>
  /\ thrown = "Error"
  /\ Len(cells[1].listeners) = 2
  /\ cells[1].listeners[1].kind = "updateUI"
  /\ cells[1].listeners[2].kind = "raiser"

(***************************************************************************)
(* C22: the cart                                                           *)
(***************************************************************************)
\* the sum of price * quantity over the entries
RECURSIVE SumOfLines(_)
SumOfLines(items) ==
  IF items = <<>> THEN 0
  ELSE GetProp(Head(items), "price").n * GetProp(Head(items), "quantity").n
       + SumOfLines(Tail(items))

\* the entries of items with the given id
WithId(items, id) == {i \in 1..Len(items) : GetProp(items[i], "id") = id}

\* the cart value v has the total of its entries and no id twice
CartConsistent(v) ==
  /\ GetProp(v, "total") = Num(SumOfLines(GetProp(v, "items").el))
  /\ \A i, j \in 1..Len(GetProp(v, "items").el) :
       GetProp(GetProp(v, "items").el[i], "id")
         = GetProp(GetProp(v, "items").el[j], "id") => i = j

\* the step is a call of cart method op
CartCalled(op) == HasCart /\ called'.n = called.n + 1 /\ called'.op = op

\* C22: for a cart created from an empty stored cart, after every addItem,
\* removeItem and checkout the total is the sum of price * quantity and no
\* id occurs twice; addItem of an id in the cart adds 1 to its quantity and
\* leaves the other entries alone, addItem of a new id appends it with
\* quantity 1, removeItem(id) leaves no entry with that id, and checkout
\* leaves { items: [], total: 0 }
C22_CartArithmetic ==
  [][LET c == CartCell
         before == Items(c)
         after == GetProp(cells'[c].value, "items").el
     IN /\ HasCart' =>
             CartConsistent(cells'[CHOOSE d \in 1..Len(cells') :
                                     cells'[d].key = "cart"].value)
        /\ CartCalled("addItem") =>
             LET id == GetProp(called'.arg, "id")
             IN IF WithId(before, id) # {}
                THEN /\ Len(after) = Len(before)
                     /\ \A i \in 1..Len(before) :
                          IF i \in WithId(before, id)
                          THEN after[i] =
                                 WithQuantity(before[i],
                                   GetProp(before[i], "quantity").n + 1)
                          ELSE after[i] = before[i]
                ELSE /\ Len(after) = Len(before) + 1
                     /\ SubSeq(after, 1, Len(before)) = before
                     /\ GetProp(after[Len(after)], "id") = id
                     /\ GetProp(after[Len(after)], "quantity") = Num(1)
                     /\ GetProp(after[Len(after)], "price")
                          = GetProp(called'.arg, "price")
        /\ CartCalled("removeItem") =>
             /\ WithId(after, called'.arg) = {}
             /\ after = SelectSeq(before,
                          LAMBDA i : GetProp(i, "id") # called'.arg)
        /\ CartCalled("checkout") => cells'[c].value = EmptyCart]_vars

\* a cart of two entries, one of them added twice
C22_Witness ==
  /\ HasCart
  /\ called.op = "addItem"
  /\ called.n = 3
  /\ GetProp(cells[CartCell].value, "total") = Num(23)
  /\ Len(Items(CartCell)) = 2

(***************************************************************************)
(* C23: overlapping saves                                                  *)
(***************************************************************************)
\* the step is the settling of request i
Settles(i) ==
  /\ i \in 1..Len(saves)
  /\ Len(saves') = Len(saves) - 1
  /\ \A j \in 1..Len(saves') :
       saves'[j] = IF j < i THEN saves[j] ELSE saves[j + 1]

\* C23: with a database connected, every cart mutation starts a save of
\* the full value the cell has right after its set, and leaves the saves in
\* flight as they are; the saves settle in any order, none is cancelled, a
\* save that succeeds leaves its value in the store whatever was saved
\* since, and settling changes no cell, so the cell keeps the value of the
\* latest set
C23_SavesRace ==
  [][/\ (HasCart /\ called'.n = called.n + 1) =>
          /\ cells'[CartCell].value
               = Merge(cells[CartCell].value, CartUpdate(Items(CartCell)'))
          /\ backend' = backend
          /\ IF sqlDB
             THEN /\ Len(saves') = Len(saves) + 1
                  /\ SubSeq(saves', 1, Len(saves)) = saves
                  /\ saves'[Len(saves')].value = cells'[CartCell].value
                  /\ saves'[Len(saves')].by = called'.n
             ELSE saves' = saves
     /\ Len(saves') < Len(saves) =>
          /\ \E i \in 1..Len(saves) : Settles(i)
          /\ cells' = cells
          /\ called' = called
          /\ \E i \in 1..Len(saves) :
               /\ Settles(i)
               /\ backend' \in {backend,
                                [backend EXCEPT ![saves[i].key] =
                                                  saves[i].value]}
     /\ backend' # backend => Len(saves') < Len(saves)]_vars

\* two mutations overlapped, the save of the second has succeeded and the
\* save of the first is still in flight with another value: it will
\* overwrite the store when it succeeds
C23_Witness ==
  /\ HasCart
  /\ called.n = 2
  /\ Len(saves) = 1
  /\ saves[1].by = 1
  /\ backend["user_cart"] = cells[CartCell].value
  /\ saves[1].value # cells[CartCell].value

(***************************************************************************)
(* C24: the session                                                        *)
(***************************************************************************)
\* the step is the settling of a request of method op: request i leaves
\* saves and the others stay
SettlesOf(op) ==
  \E i \in 1..Len(saves) : Settles(i) /\ saves[i].op = op

\* the request that settles in the step
Settling == saves[CHOOSE i \in 1..Len(saves) : Settles(i)]

\* the step is a call of auth method op
AuthCalled(op) == HasAuth /\ called'.n = called.n + 1 /\ called'.op = op

\* login returns in this step and no persistence step has failed
LoginCompletes ==
  \/ AuthCalled("login") /\ saves' = saves
  \/ SettlesOf("login") /\ settled'

\* logout returns or rejects in this step
LogoutEnds ==
  \/ AuthCalled("logout") /\ saves' = saves
  \/ SettlesOf("logout")

\* the emit calls of the step are one emit of event
EmitsOnce(event) == Len(emits') = 1 /\ emits'[1].event = event

\* C24: after a login completes without a persistence step failing,
\* isAuthenticated() is true and getUser() is the user of the login; after
\* a logout, isAuthenticated() is false and getUser() is null; in every
\* state isAuthenticated() is true exactly when the stored token is not
\* null; 'login' is emitted once per successful login, with the user, and
\* 'logout' once per logout, and they are emitted at no other time
C24_SessionFollowsCalls ==
  [][HasAuth =>
       /\ LoginCompletes =>
            /\ IsAuthenticated'
            /\ GetUser' = (IF AuthCalled("login")
                           THEN User(called'.arg.s)
                           ELSE Settling.arg)
            /\ EmitsOnce("login")
            /\ emits'[1].payload = GetUser'
       /\ LogoutEnds =>
            /\ ~IsAuthenticated'
            /\ GetUser' = Null
            /\ EmitsOnce("logout")
       /\ IsAuthenticated' <=>
            GetProp(cells'[AuthCell].value, "token") # Null
       /\ ~LoginCompletes /\ ~LogoutEnds => emits' = <<>>]_vars

(***************************************************************************)
(* C25: the event bus                                                      *)
(***************************************************************************)
\* the step is a call of bus method op
BusCalled(op) == called'.n = called.n + 1 /\ called'.op = op

\* the callbacks registered for event in bus b, in registration order
ListOf(b, event) == b[event].list

\* C25: emit(event, payload) invokes the callbacks registered for the event
\* when it is called, each once per registration, in registration order
\* and with the payload, and no other callback; on appends one registration
\* of the callback; off(event, cb) leaves no registration of cb for the
\* event and keeps the other callbacks in their order; on and off leave the
\* other events as they are
C25_BusDelivers ==
  [][LET event == called'.arg.event
         cb == called'.arg.cb
         before == ListOf(bus, event)
         after == ListOf(bus', event)
     IN /\ BusCalled("emit") =>
             /\ Len(invoked') = Len(before)
             /\ \A i \in 1..Len(before) :
                  /\ invoked'[i].cb = before[i]
                  /\ invoked'[i].payload = called'.arg.payload
                  /\ invoked'[i].event = event
             /\ \A e \in Events \ {event} : bus'[e] = bus[e]
        /\ BusCalled("on") =>
             /\ after = Append(before, cb)
             /\ invoked' = <<>>
             /\ \A e \in Events \ {event} : bus'[e] = bus[e]
        /\ BusCalled("off") =>
             /\ \A i \in 1..Len(after) : after[i] # cb
             /\ after = SelectSeq(before, LAMBDA x : x # cb)
             /\ invoked' = <<>>
             /\ \A e \in Events \ {event} : bus'[e] = bus[e]]_vars

\* two callbacks registered for an event have been invoked by an emit, in
\* registration order
C25_Witness ==
  /\ called.op = "emit"
  /\ Len(invoked) = 2
  /\ invoked[1].cb = Callback("fn", 2)
  /\ invoked[2].cb = Callback("fn", 1)
  /\ invoked[2].payload = Num(2)
  /\ bus[called.arg.event].list = <<Callback("fn", 2), Callback("fn", 1)>>

(***************************************************************************)
(* C26: computed cells without memoization                                 *)
(***************************************************************************)
\* log entry i is an invocation of the subscriber of a computed cell that
\* was created with memoize = false
Unmemoized(i) ==
  /\ log[i].cb.kind = "computed"
  /\ ~computeds[log[i].cb.a].memoize

\* the set calls made by the invocation of log entry i
CallsBy(i) == {k \in 1..Len(calls) : calls[k].by = i}

\* C26: with memoize = false, every invocation of the subscriber that
\* createComputed put on the source cell calls set once on the computed
\* cell, with computeFn of the source value, and that set invokes each
\* subscriber of the computed cell once, in order; this is so also when the
\* result is deep-equal to the value the computed cell had
C26_UnmemoizedAlwaysNotifies ==
  \A i \in 1..Len(log) :
    Unmemoized(i) =>
      LET d == computeds[log[i].cb.a]
      IN /\ Cardinality(CallsBy(i)) = 1
         /\ \A k \in CallsBy(i) :
              /\ calls[k].cell = d.computed
              /\ calls[k].arg = ComputeFn(d.computeFn, cells[d.state].value)
              /\ calls[k].subs = Len(cells[d.computed].listeners)
              /\ \A j \in 1..Len(EntriesOf(k)) :
                   /\ EntriesOf(k)[j].pos = j
                   /\ EntriesOf(k)[j].cb = cells[d.computed].listeners[j]
              /\ Finished(k) => Len(EntriesOf(k)) = calls[k].subs

\* the subscriber of an unmemoized computed cell has set a result deep-equal
\* to the value the cell had, and the subscriber of the computed cell has
\* been invoked for it
C26_Witness ==
  \E i \in 1..Len(log) :
    /\ Unmemoized(i)
    /\ \E k \in CallsBy(i) :
         /\ DeepEqual(calls[k].arg, calls[k].before)
         /\ calls[k].subs >= 1
         /\ Finished(k)
         /\ Len(EntriesOf(k)) = calls[k].subs

(***************************************************************************)
(* C27: the equality of memoization                                        *)
(***************************************************************************)
\* C27 as claimed: the test of a memoized computed cell is structural
\* equality: the recomputed result counts as changed exactly when it is not
\* deep-equal to the cache, so that records with the same keys and values
\* in another insertion order count as equal
C27_MemoizationIsStructural ==
  \A d \in 1..Len(computeds) :
    computeds[d].memoize =>
      LET newValue == ComputeFn(computeds[d].computeFn,
                                cells[computeds[d].state].value)
      IN Changed(TRUE, newValue, computeds[d].cache)
           <=> ~DeepEqual(newValue, computeds[d].cache)

(***************************************************************************)
(* C28: onMount and onUpdate                                               *)
(***************************************************************************)
\* the calls of lifecycle of binding b among the calls evs
LifecycleCalls(evs, b, lifecycle) == Count(evs, Event(b, lifecycle))

\* the calls the step adds to those of the running top-level call
NewEvents ==
  IF Len(events') >= Len(events) /\ SubSeq(events', 1, Len(events)) = events
  THEN SubSeq(events', Len(events) + 1, Len(events'))
  ELSE events'

\* C28 as claimed: a render call calls onMount at most once, after its
\* template call, and never onUpdate; a re-render calls onUpdate at most
\* once and never onMount; and onUpdate is called only for a binding whose
\* initial render has called onMount
C28_UpdateOnlyAfterMount ==
  [][/\ \A b \in 1..Len(bindings') :
          /\ LifecycleCalls(NewEvents, b, "onMount")
               = (IF Mounts(b) /\ mounted'[b] THEN 1 ELSE 0)
          /\ LifecycleCalls(NewEvents, b, "onUpdate") <= 1
          /\ LifecycleCalls(NewEvents, b, "onUpdate") = 1 =>
               /\ ~Mounts(b)
               /\ mounted[b]
     /\ \A b \in 1..Len(bindings') :
          (Mounts(b) /\ mounted'[b]) =>
            \E i, j \in 1..Len(events') :
              /\ i < j
              /\ events'[i] = Event(b, "template")
              /\ events'[j] = Event(b, "onMount")]_vars

(***************************************************************************)
(* C29: event handlers                                                     *)
(***************************************************************************)
\* the listener the claim describes for a data-on name: the function of
\* that name in the context, or else the global one, called with the
\* context as second argument
ClaimedListener(name) ==
  [name |-> name,
   handler |-> IF name \in ContextNames THEN "context" ELSE "window",
   second |-> "context"]

\* C29 as claimed: after every initial render and re-render that reaches
\* _bindEvents, each data-on element whose name is a function of the
\* context, or else a global function, has a listener that calls that
\* function with the context as second argument, and there is no other
\* listener
C29_HandlersFromContext ==
  [][\A b \in 1..Len(bindings') :
       Calls(NewEvents, Event(b, "bind")) =>
         bound'[bindings'[b].target] =
           {ClaimedListener(name) :
              name \in {n \in DataOn : n \in ContextNames \cup WindowNames}}]_vars

(***************************************************************************)
(* C30: submit                                                             *)
(***************************************************************************)
\* the step is a call of form.submit
SubmitCalled == called' # called /\ called'.op = "submit"

\* the onSubmit calls that have not settled
OnSubmits(requests) == SelectSeq(requests, LAMBDA r : r.action = "onSubmit")

\* the step settles request i, an onSubmit call
SettlesSubmit(i) ==
  /\ Settles(i)
  /\ saves[i].action = "onSubmit"

IsSubmitting(value) == GetProp(value, "isSubmitting")
ErrorsIn(value) == GetProp(value, "errors")
ValuesIn(value) == GetProp(value, "values")

\* the message validateField gives for validator i on the values of value
MessageOf(i, value) ==
  ValidateField(form.validators[i].rules,
                GetProp(ValuesIn(value), form.validators[i].field))

\* errors holds the message, or null, of every field that has validators
\* and nothing else
HoldsMessages(after, before) ==
  /\ Len(OwnProps(ErrorsIn(after))) = Len(form.validators)
  /\ \A i \in 1..Len(form.validators) :
       GetProp(ErrorsIn(after), form.validators[i].field) =
         MessageOf(i, before)

\* every field that has validators passes
AllPass(value) ==
  \A i \in 1..Len(form.validators) : ~Truthy(MessageOf(i, value))

SubscriberRaises ==
  /\ Running
  /\ \/ Current.kind = "raiser"
     \/ ComputeRaises

\* the positions of the loop of call id whose callback has been invoked
Visits(id) == {log[i].pos : i \in {j \in 1..Len(log) : log[j].call = id}}

\* no set call made after call id has written cell c
LastOn(c, id) == \A j \in (id + 1)..Len(calls) : calls[j].cell # c

\* C31: when a subscriber throws during the notification of a set, the
\* exception leaves that set and every set below it and reaches the caller;
\* nothing is rolled back: the cell holds the merged value of the set and,
\* when it has a key, the store holds that value and its JSON text; the
\* subscribers before the failing one have been invoked, each once, and no
\* subscriber after it is invoked for that set
C31_SubscriberErrorPropagates ==
  [][SubscriberRaises =>
       LET f == Top(stack)
           c == f.cell
           call == calls[f.call]
       IN /\ thrown' = "Error"
          /\ stack' = <<>>
          /\ cells' = cells
          /\ persistedState' = persistedState
          /\ localStorage' = localStorage
          /\ LastOn(c, f.call) =>
               /\ cells'[c].value = Merge(call.before, call.arg)
               /\ cells[c].key # NoKey =>
                    /\ persistedState'[cells[c].key] = cells'[c].value
                    /\ localStorage'[cells[c].key] =
                         ToText(Stringify(cells'[c].value))
          /\ Visits(f.call) = 1..(f.idx - 1)
          /\ Cardinality({j \in 1..Len(log) : log[j].call = f.call}) =
               f.idx - 1
          /\ \A j \in 1..Len(log) :
               log[j].call = f.call =>
                 log[j].cb = cells[c].listeners[log[j].pos]]_vars

\* a set on the persisted cell has raised out of a user subscriber that
\* throws, which had a subscriber before it and one after it: the cell and
\* the store hold the value of the set
C31_Witness ==
  /\ stack = <<>>
  /\ thrown = "Error"
  /\ cells # <<>>
  /\ cells[1].value \in ThrowValues
  /\ persistedState["k"] = cells[1].value
  /\ Len(cells[1].listeners) = 3
  /\ cells[1].listeners[2] = Callback("raiser", 1)
  /\ cells[1].listeners[1].kind = "fn"

(***************************************************************************)
(* C32: reading a computed cell from a subscriber of its source            *)
(***************************************************************************)
\* this step calls a user function subscribed to cell c
UserNotified(c) ==
  /\ Running
  /\ Top(stack).cell = c
  /\ Current.kind = "fn"

\* C32 as claimed: whenever a user function subscribed to a source cell is
\* invoked by a set on that cell, every cell computed from the source by
\* isEven holds isEven of the value the source holds now, whether the
\* function was subscribed before or after createComputed was called
C32_DerivedReadsAreFresh ==
  [][\A k \in 1..Len(computeds) :
       (UserNotified(computeds[k].state) /\ computeds[k].computeFn = "isEven")
         => cells[computeds[k].computed].value =
              ComputeFn("isEven", cells[computeds[k].state].value)]_vars

(***************************************************************************)
(* C33: a subscriber that calls set on its own cell                        *)
(***************************************************************************)
\* the indices of the log entries of the loop of call id
IndicesOf(id) == {i \in 1..Len(log) : log[i].call = id}

\* the set calls on cell c that the callbacks of the loop of call id have
\* made so far
InnerSets(c, id) ==
  {j \in 1..Len(calls) :
     /\ calls[j].cell = c
     /\ calls[j].by \in IndicesOf(id)}

Latest(S) == CHOOSE j \in S : \A k \in S : k <= j

\* the value set call j left in its cell
PostMerge(j) == Merge(calls[j].before, calls[j].arg)

\* C33: when a subscriber calls set on the cell it is subscribed to, every
\* set call, inner or outer, invokes every subscriber once; a subscriber
\* after the re-entrant one is invoked by the inner set before the outer set
\* invokes it, and both times get() gives the value the inner set merged;
\* a subscriber no inner set precedes reads the value its own set merged
C33_ReentrantSet ==
  [][/\ (stack # <<>> /\ stack' = Pop(stack)) =>
          LET f == Top(stack)
          IN /\ {log[i].pos : i \in IndicesOf(f.call)} =
                  1..Len(cells[f.cell].listeners)
             /\ Cardinality(IndicesOf(f.call)) = Len(cells[f.cell].listeners)
     /\ (Running /\ Current.kind = "fn") =>
          LET f == Top(stack)
              c == f.cell
              inner == InnerSets(c, f.call)
          IN IF inner = {}
             THEN cells[c].value = PostMerge(f.call)
             ELSE /\ cells[c].value = PostMerge(Latest(inner))
                  /\ \A j \in inner :
                       \E i \in IndicesOf(j) :
                         /\ log[i].pos = f.idx
                         /\ log[i].cb = Current]_vars

\* the outer set is about to invoke, for the second time, an observer that
\* is subscribed after a subscriber that called set: the inner set has
\* invoked it, and x is the 1 of the inner set, not the 0 of the outer one
C33_Witness ==
  /\ Len(stack) = 1
  /\ Running
  /\ Current.kind = "fn"
  /\ calls[1].arg = Obj(<<P("x", Num(0))>>)
  /\ InnerSets(1, 1) # {}
  /\ GetProp(cells[1].value, "x") = Num(1)
  /\ \E i \in 1..Len(log) : log[i].call # 1 /\ log[i].pos = Top(stack).idx

(***************************************************************************)
(* C34: subscribing during a notification                                  *)
(***************************************************************************)
\* this step starts a set call
SetStarts == Len(calls') = Len(calls) + 1
\* this step invokes a callback
Invokes == Len(log') = Len(log) + 1
\* this step is the return of the set call whose loop is on top
Returns == stack # <<>> /\ ~Running /\ stack' = Pop(stack)

\* the callbacks subscribed to cell c when set call id was made
SubscribedAt(id) == SubSeq(cells[calls[id].cell].listeners, 1, calls[id].subs)

\* C34: a set call invokes the callbacks that were subscribed when it was
\* called, each once and in subscription order, and no other: a callback
\* subscribed while its loop runs is not invoked by that loop, and is
\* invoked, after all callbacks subscribed earlier, by every set called
\* later
C34_LateSubscriber ==
  [][/\ SetStarts =>
          calls'[Len(calls')].subs =
            Len(cells[calls'[Len(calls')].cell].listeners)
     /\ Invokes =>
          LET e == log'[Len(log')]
          IN /\ e.pos <= calls[e.call].subs
             /\ e.cb = cells[calls[e.call].cell].listeners[e.pos]
     /\ Returns =>
          LET id == Top(stack).call
          IN [i \in 1..Len(EntriesOf(id)) |-> EntriesOf(id)[i].cb] =
               SubscribedAt(id)]_vars

\* a set returns that has invoked the callback a subscriber subscribed
\* during an earlier notification, after the subscriber itself, and is
\* about to return
C34_Witness ==
  /\ Len(stack) = 1
  /\ ~Running
  /\ Len(cells[1].listeners) = 3
  /\ cells[1].listeners[2] = Callback("adder", 1)
  /\ cells[1].listeners[3] = Late
  /\ Len(log) = 3
  /\ log[3].cb = Late

(***************************************************************************)
(* C35: two cells bound to one persistence key                             *)
(***************************************************************************)
\* this step creates a cell
Creates == Len(cells') = Len(cells) + 1

\* the store holds value v under key k: the object in persistedState and its
\* JSON text in localStorage
Holds(k, v) ==
  /\ persistedState'[k] = v
  /\ localStorage'[k] = ToText(Stringify(v))

\* the cells other than c keep their values
OthersKeep(c) ==
  \A d \in 1..Len(cells) : d # c => cells'[d].value = cells[d].value

\* C35: cells bound to one key never synchronise: a set on one of them
\* leaves the value of every other cell alone, and so does the creation of
\* a cell; the store holds the full value of the cell that was created or
\* set last, and nothing else writes it (what only another cell holds is
\* not in the store)
C35_SharedKey ==
  [][/\ Creates =>
          /\ OthersKeep(0)
          /\ Holds("k", cells'[Len(cells')].value)
     /\ SetStarts =>
          LET c == calls'[Len(calls')].cell
          IN /\ OthersKeep(c)
             /\ Holds("k", cells'[c].value)
     /\ ~Creates /\ ~SetStarts =>
          /\ OthersKeep(0)
          /\ persistedState' = persistedState
          /\ localStorage' = localStorage]_vars

\* the first cell got x, then the second cell, which was created before
\* that, got y: the store holds y without x, the first cell x without y
C35_Witness ==
  /\ Len(cells) = 2
  /\ stack = <<>>
  /\ cells[1].value = Obj(<<P("x", Num(1))>>)
  /\ cells[2].value = Obj(<<P("y", Num(2))>>)
  /\ persistedState["k"] = cells[2].value
  /\ GetItem(localStorage, "k") = ToText(Stringify(cells[2].value))

(***************************************************************************)
(* C36: two renders on one mount point                                     *)
(***************************************************************************)
\* the binding the latest render call created
LastBinding == bindings[Len(bindings)]

\* C36 as claimed: once a render call has mounted a component on a mount
\* point, the content of the mount point is the output of that component's
\* template for its local cell whenever no call is in progress: a set on
\* the cell an earlier render on the mount point returned does not change it
C36_LastRenderOwnsMount ==
  (stack = <<>> /\ bindings # <<>>) =>
    dom[LastBinding.target] =
      Html(LastBinding.name, cells[LastBinding.state].value)

(***************************************************************************)
(* C37: addItem while checkout awaits its request                          *)
(***************************************************************************)
\* the quantity of id among items
QuantityOf(items, id) ==
  IF Find(items, id) = 0 THEN 0
  ELSE GetProp(items[Find(items, id)], "quantity").n

\* this step completes the checkout whose request is saves[i]
CheckoutCompletes(i) ==
  /\ Settles(i)
  /\ saves[i].action = "post"
  /\ saves[i].op = "checkout"
  /\ settled'

\* C37 as claimed: when a checkout completes, every unit of every item that
\* was in the cart up to then is in the cart the checkout posted or is still
\* in the cart
C37_CheckoutKeepsAddedItems ==
  [][\A i \in 1..Len(saves) :
       CheckoutCompletes(i) =>
         \A id \in CartIds :
           QuantityOf(Items(CartCell), id) <=
             QuantityOf(GetProp(saves[i].value, "items").el, id)
             + QuantityOf(GetProp(cells'[CartCell].value, "items").el, id)
    ]_vars

(***************************************************************************)
(* C38: the failure branch of login                                        *)
(***************************************************************************)
\* this step settles the save of a login, which rejects
LoginSaveRejects ==
  \E i \in 1..Len(saves) :
    Settles(i) /\ saves[i].op = "login" /\ ~settled'

\* C38 as claimed: whenever getError() is not null, isAuthenticated() is
\* false and getUser() is null; a login whose save rejects leaves the
\* session that way and emits no 'login' event
C38_FailedLoginIsLoggedOut ==
  [][/\ (HasAuth' /\ GetError' # Null) =>
          /\ ~IsAuthenticated'
          /\ GetUser' = Null
     /\ LoginSaveRejects =>
          /\ GetError' # Null
          /\ emits' = <<>>]_vars

(***************************************************************************)
(* C39: overlapping submits                                                *)
(***************************************************************************)
\* C39 as claimed: isSubmitting is true exactly while an onSubmit call of
\* the form has not settled
C39_SubmittingWhilePending ==
  form # NoForm =>
    (IsSubmitting(cells[form.cell].value) = Bool(TRUE)
       <=> OnSubmits(saves) # <<>>)

=============================================================================
